---------------------------- MODULE Spec2Model ----------------------------
(***************************************************************************)
(* Model of the IATA Bar Coded Boarding Pass codec of iata-rs:             *)
(*   - the field catalog           (src/src/bcbp/field.rs)                 *)
(*   - the forward-only cursor     (src/src/bcbp/chunk.rs)                 *)
(*   - the decoder BCBP::from and the encoder BCBP::build                  *)
(*                                 (src/src/bcbp/mod.rs)                   *)
(*   - the borrowing decoder raw::Bcbp::from                               *)
(*                                 (src/src/bcbp/raw/parser.rs)            *)
(*                                                                         *)
(* A string is a sequence of one-character strings.  A cursor is a pair    *)
(* of offsets [lo, hi) into the input it borrows from, as a Rust &str is   *)
(* a pointer and a length into the buffer it borrows from.  Option<T> is   *)
(* <<>> for None and <<v>> for Some(v).  An error is a tuple whose head    *)
(* names the variant of bcbp::Error; <<>> stands for "no error".           *)
(***************************************************************************)
EXTENDS Integers, Sequences, FiniteSets, TLC

(***************************************************************************)
(* Bounds of the model.                                                     *)
(***************************************************************************)
\* the largest number of legs an assembled input carries
MaxLegs == 2

(***************************************************************************)
(* Characters.                                                              *)
(***************************************************************************)
None == <<>>

Some(v) == <<v>>

\* the characters of the model's alphabet that are not ASCII; each takes two
\* bytes in UTF-8
NonAscii == {"U+00E7"}

\* str::is_ascii
is_ascii(s) == \A i \in 1..Len(s) : s[i] \notin NonAscii

\* str::len: the length in bytes
ByteLen(s) == Len(s) + Cardinality({i \in 1..Len(s) : s[i] \in NonAscii})

LowerCase ==
  <<"a","b","c","d","e","f","g","h","i","j","k","l","m",
    "n","o","p","q","r","s","t","u","v","w","x","y","z">>

UpperCase ==
  <<"A","B","C","D","E","F","G","H","I","J","K","L","M",
    "N","O","P","Q","R","S","T","U","V","W","X","Y","Z">>

\* char::to_uppercase on the model's alphabet
UpperChar(c) ==
  IF \E i \in 1..Len(LowerCase) : LowerCase[i] = c
  THEN UpperCase[CHOOSE i \in 1..Len(LowerCase) : LowerCase[i] = c]
  ELSE c

\* str::to_uppercase
to_uppercase(s) == [i \in 1..Len(s) |-> UpperChar(s[i])]

\* char::is_whitespace restricted to ASCII
White == {" ", "\t", "\n", "\r"}

Digits == <<"0","1","2","3","4","5","6","7","8","9","A","B","C","D","E","F">>

\* char::to_digit(radix): the value of the digit, -1 when c is no digit of
\* the radix; letters count in both cases
to_digit(c, radix) ==
  LET u == UpperChar(c) IN
  IF \E i \in 1..radix : Digits[i] = u
  THEN (CHOOSE i \in 1..radix : Digits[i] = u) - 1
  ELSE -1

(***************************************************************************)
(* Strings.                                                                 *)
(***************************************************************************)
RECURSIVE trim_start(_)
\* str::trim_start
trim_start(s) ==
  IF s # <<>> /\ Head(s) \in White THEN trim_start(Tail(s)) ELSE s

RECURSIVE trim_end(_)
\* str::trim_end
trim_end(s) ==
  IF s # <<>> /\ s[Len(s)] \in White
  THEN trim_end(SubSeq(s, 1, Len(s) - 1)) ELSE s

\* str::trim
trim(s) == trim_end(trim_start(s))

RECURSIVE trim_start_matches(_, _)
\* str::trim_start_matches(char)
trim_start_matches(s, c) ==
  IF s # <<>> /\ Head(s) = c THEN trim_start_matches(Tail(s), c) ELSE s

RECURSIVE Rep(_, _)
\* n copies of the character c
Rep(c, n) == IF n <= 0 THEN <<>> ELSE <<c>> \o Rep(c, n - 1)

\* format!("{:<w}") with fill c: left-aligned, never truncated
PadRight(s, w, c) == s \o Rep(c, w - Len(s))

\* format!("{:>w}") with fill c: right-aligned, never truncated
PadLeft(s, w, c) == Rep(c, w - Len(s)) \o s

\* String::truncate
truncate(s, n) == IF Len(s) > n THEN SubSeq(s, 1, n) ELSE s

RECURSIVE ToDec(_)
\* Display of an unsigned integer
ToDec(n) ==
  IF n < 10 THEN <<Digits[n + 1]>>
  ELSE ToDec(n \div 10) \o <<Digits[(n % 10) + 1]>>

\* &s[lo..hi] with 0-based offsets
Slice(s, lo, hi) == SubSeq(s, lo + 1, hi)

(***************************************************************************)
(* Integer parsing (core::num from_str_radix for unsigned types).           *)
(***************************************************************************)
U16Max == 65535

RECURSIVE DigitsValue(_, _, _)
\* the positional value of the digits of s, -1 when one of them is no
\* digit of the radix
DigitsValue(s, radix, acc) ==
  IF s = <<>> THEN acc
  ELSE IF to_digit(Head(s), radix) < 0 THEN -1
  ELSE DigitsValue(Tail(s), radix, acc * radix + to_digit(Head(s), radix))

\* uN::from_str_radix: Some(value) or None for Err(ParseIntError).  An empty
\* string, a lone sign, a '-' and a value above max are errors; one leading
\* '+' is accepted.  max < 0 stands for "no overflow possible".
from_str_radix(s, radix, max) ==
  IF s = <<>> THEN None
  ELSE IF Len(s) = 1 /\ s[1] \in {"+", "-"} THEN None
  ELSE LET digits == IF s[1] = "+" THEN Tail(s) ELSE s
           v == DigitsValue(digits, radix, 0)
       IN IF v < 0 \/ (max >= 0 /\ v > max) THEN None ELSE Some(v)

\* u16::from_str_radix
u16_from_str_radix(s, radix) == from_str_radix(s, radix, U16Max)

\* usize::from_str_radix; the fields read as usize are at most two bytes
\* wide, so the 64-bit range is never exceeded
usize_from_str_radix(s, radix) == from_str_radix(s, radix, -1)

(***************************************************************************)
(* Field catalog (field.rs): the intrinsic length of each field, 0 for a   *)
(* variable-length field.                                                   *)
(***************************************************************************)
FieldLen(field) ==
  CASE field = "FormatCode" -> 1
    [] field = "AirlineIndividualUse" -> 0
    [] field = "NumberOfLegsEncoded" -> 1
    [] field = "FieldSizeOfVariableSizeField" -> 2
    [] field = "OperatingCarrierPnrCode" -> 7
    [] field = "BeginningOfVersionNumber" -> 1
    [] field = "VersionNumber" -> 1
    [] field = "FieldSizeOfStructuredMessageUnique" -> 2
    [] field = "PassengerName" -> 20
    [] field = "SourceOfCheckIn" -> 1
    [] field = "SourceOfBoardingPassIssuance" -> 1
    [] field = "PassengerDescription" -> 1
    [] field = "DocumentType" -> 1
    [] field = "FieldSizeOfStructuredMessageRepeated" -> 2
    [] field = "SelecteeIndicator" -> 1
    [] field = "MarketingCarrierDesignator" -> 3
    [] field = "FrequentFlyerAirlineDesignator" -> 3
    [] field = "AirlineDesignatorOfBoardingPassIssuer" -> 3
    [] field = "DateOfIssueOfBoardingPass" -> 4
    [] field = "BaggageTagLicensePlateNumbers" -> 13
    [] field = "BeginningOfSecurityData" -> 1
    [] field = "FromCityAirportCode" -> 3
    [] field = "TypeOfSecurityData" -> 1
    [] field = "LengthOfSecurityData" -> 2
    [] field = "SecurityData" -> 0
    [] field = "FirstNonConsecutiveBaggageTagLicensePlateNumbers" -> 13
    [] field = "SecondNonConsecutiveBaggageTagLicensePlateNumbers" -> 13
    [] field = "ToCityAirportCode" -> 3
    [] field = "OperatingCarrierDesignator" -> 3
    [] field = "FlightNumber" -> 5
    [] field = "DateOfFlight" -> 3
    [] field = "CompartmentCode" -> 1
    [] field = "IdAdIndicator" -> 1
    [] field = "SeatNumber" -> 4
    [] field = "CheckInSequenceNumber" -> 5
    [] field = "InternationalDocumentVerification" -> 1
    [] field = "PassengerStatus" -> 1
    [] field = "FreeBaggageAllowance" -> 3
    [] field = "AirlineNumericCode" -> 3
    [] field = "DocumentFormSerialNumber" -> 10
    [] field = "FrequentFlyerNumber" -> 16
    [] field = "ElectronicTicketIndicator" -> 1
    [] field = "FastTrack" -> 1

(***************************************************************************)
(* Cursor (chunk.rs).  A Chunk over the input s is [lo, hi): the bytes it  *)
(* still holds are Slice(s, lo, hi).  Every operation returns              *)
(*   [err, val, chunk]: the error or <<>>, the value, the cursor after.    *)
(* A failed assert! is the error <<"Panic", message>>.                     *)
(***************************************************************************)
\* Chunk::new over the whole of s
new(s) == [lo |-> 0, hi |-> Len(s)]

\* Chunk::eof
eof(c) == c.lo = c.hi

\* Chunk::len
len(c) == c.hi - c.lo

\* fetch_chunk handing out all that remains when fewer than n bytes remain
fetch_chunk_clamped(c, n) ==
  IF ~(n > 0)
  THEN [err |-> <<"Panic", "zero-length sub-field list">>, val |-> None, chunk |-> c]
  ELSE IF len(c) < n
  THEN [err |-> <<>>, val |-> c, chunk |-> [lo |-> c.hi, hi |-> c.hi]]
  ELSE [err |-> <<>>,
        val |-> [lo |-> c.lo, hi |-> c.lo + n],
        chunk |-> [lo |-> c.lo + n, hi |-> c.hi]]

\* Chunk::fetch_chunk
fetch_chunk(c, n) ==
  IF ~(n > 0)
  THEN [err |-> <<"Panic", "zero-length sub-field list">>, val |-> None, chunk |-> c]
  ELSE IF len(c) < n
  THEN [err |-> <<"SubsectionTooLong">>, val |-> None, chunk |-> c]
  ELSE [err |-> <<>>,
        val |-> [lo |-> c.lo, hi |-> c.lo + n],
        chunk |-> [lo |-> c.lo + n, hi |-> c.hi]]

\* fetch_str_len with the length checked against the end of the input
\* instead of the end of the cursor
fetch_str_len_unbounded(s, c, field, n) ==
  IF ~(n > 0)
  THEN [err |-> <<"Panic", "zero bytes of data">>, val |-> None, chunk |-> c]
  ELSE IF ~(FieldLen(field) = 0 \/ FieldLen(field) = n)
  THEN [err |-> <<"Panic", "length not compatible">>, val |-> None, chunk |-> c]
  ELSE IF Len(s) - c.lo < n
  THEN [err |-> <<"UnexpectedEndOfInput", field>>, val |-> None, chunk |-> c]
  ELSE [err |-> <<>>,
        val |-> Slice(s, c.lo, c.lo + n),
        chunk |-> [lo |-> c.lo + n, hi |-> c.hi]]

\* Chunk::fetch_str_len
fetch_str_len(s, c, field, n) ==
  IF ~(n > 0)
  THEN [err |-> <<"Panic", "zero bytes of data">>, val |-> None, chunk |-> c]
  ELSE IF ~(FieldLen(field) = 0 \/ FieldLen(field) = n)
  THEN [err |-> <<"Panic", "length not compatible">>, val |-> None, chunk |-> c]
  ELSE IF len(c) < n
  THEN [err |-> <<"UnexpectedEndOfInput", field>>, val |-> None, chunk |-> c]
  ELSE [err |-> <<>>,
        val |-> Slice(s, c.lo, c.lo + n),
        chunk |-> [lo |-> c.lo + n, hi |-> c.hi]]

\* Chunk::fetch_str
fetch_str(s, c, field) ==
  IF ~(FieldLen(field) # 0)
  THEN [err |-> <<"Panic", "variable-length field as fixed-length">>,
        val |-> None, chunk |-> c]
  ELSE fetch_str_len(s, c, field, FieldLen(field))

\* fetch_str_opt returning Ok(None) also when part of the field remains
fetch_str_opt_lenient(s, c, field) ==
  IF ~(FieldLen(field) # 0)
  THEN [err |-> <<"Panic", "variable-length field as fixed-length">>,
        val |-> None, chunk |-> c]
  ELSE IF len(c) < FieldLen(field) THEN [err |-> <<>>, val |-> None, chunk |-> c]
  ELSE LET r == fetch_str(s, c, field)
       IN IF r.err # <<>> THEN r ELSE [r EXCEPT !.val = Some(r.val)]

\* Chunk::fetch_str_opt
fetch_str_opt(s, c, field) ==
  IF ~(FieldLen(field) # 0)
  THEN [err |-> <<"Panic", "variable-length field as fixed-length">>,
        val |-> None, chunk |-> c]
  ELSE IF eof(c) THEN [err |-> <<>>, val |-> None, chunk |-> c]
  ELSE LET r == fetch_str(s, c, field)
       IN IF r.err # <<>> THEN r ELSE [r EXCEPT !.val = Some(r.val)]

\* Chunk::fetch_char
fetch_char(s, c, field) ==
  IF ~(FieldLen(field) = 1)
  THEN [err |-> <<"Panic", "single character out of a longer field">>,
        val |-> None, chunk |-> c]
  ELSE LET r == fetch_str(s, c, field)
       IN IF r.err # <<>> THEN r ELSE [r EXCEPT !.val = r.val[1]]

\* Chunk::fetch_char_opt
fetch_char_opt(s, c, field) ==
  IF ~(FieldLen(field) = 1)
  THEN [err |-> <<"Panic", "single character out of a longer field">>,
        val |-> None, chunk |-> c]
  ELSE IF eof(c) THEN [err |-> <<>>, val |-> None, chunk |-> c]
  ELSE LET r == fetch_char(s, c, field)
       IN IF r.err # <<>> THEN r ELSE [r EXCEPT !.val = Some(r.val)]

\* fetch_usize taking a field that is no number for the number 0
fetch_usize_lenient(s, c, field, radix) ==
  LET r == fetch_str(s, c, field) IN
  IF r.err # <<>> THEN r
  ELSE LET v == usize_from_str_radix(r.val, radix)
       IN IF v = None THEN [r EXCEPT !.val = 0] ELSE [r EXCEPT !.val = v[1]]

\* Chunk::fetch_usize: the field is consumed before its digits are parsed,
\* so the cursor has advanced also when ExpectedInteger is returned
fetch_usize(s, c, field, radix) ==
  LET r == fetch_str(s, c, field) IN
  IF r.err # <<>> THEN r
  ELSE LET v == usize_from_str_radix(r.val, radix)
       IN IF v = None
          THEN [r EXCEPT !.err = <<"ExpectedInteger", field>>, !.val = None]
          ELSE [r EXCEPT !.val = v[1]]

(***************************************************************************)
(* Decoder state.  A decoder threads a record P through its reads:         *)
(*   s     the string its cursors borrow from                              *)
(*   cur   its cursors by variable name                                    *)
(*   err   the error it returned with, <<>> while it runs                  *)
(*   at    the name of the cursor the failing read was made on             *)
(*   val   the value of the last read                                      *)
(*   vals  the values read so far, by field                                *)
(*   log   one entry per read that consumed input: the cursor, the field,  *)
(*         the bytes [lo, hi) taken, the end of the cursor read from, the  *)
(*         number parsed (-1 when none), and whether it carved a cursor    *)
(*   out   the record under construction, leg the leg under construction   *)
(***************************************************************************)
NoChunk == [lo |-> 0, hi |-> 0]

Cursors == {"chunk", "conditional_item", "unique_chunk", "repeated_chunk"}

Failed(P) == P.err # <<>>

\* return Err(e) with the kind of the error alone, without its arguments
Fail_bare(P, e) == IF Failed(P) THEN P ELSE [P EXCEPT !.err = <<e[1]>>]

\* return Err(e)
Fail(P, e) == IF Failed(P) THEN P ELSE [P EXCEPT !.err = e]

\* v evaluated once and handed to F: let x = v; F(x)
Let(v, F(_)) == CHOOSE r \in {F(x) : x \in {v}} : TRUE

\* the ? operator: the decoder returns with the state P when P has failed,
\* and goes on with F(P) otherwise
Then(P, F(_)) == Let(P, LAMBDA Q : IF Failed(Q) THEN Q ELSE F(Q))

\* the effect of one cursor operation with result r on the cursor who,
\* followed by the ? operator
Apply(P, who, field, r, n) ==
  [P EXCEPT !.cur[who] = r.chunk,
            !.err = r.err,
            !.at = who,
            !.val = r.val,
            !.vals = IF r.err = <<>> THEN (field :> r.val) @@ @ ELSE @,
            !.log = IF r.chunk # P.cur[who]
                    THEN Append(@, [who |-> who, field |-> field,
                                    lo |-> P.cur[who].lo, hi |-> r.chunk.lo,
                                    end |-> P.cur[who].hi, n |-> n,
                                    carve |-> FALSE])
                    ELSE @]

\* cursor.fetch_str(field)?, fetch_char(field)?, fetch_str_opt(field)?,
\* fetch_char_opt(field)?, by kind
Fetch(P, who, kind, field) ==
  IF Failed(P) THEN P
  ELSE Let(CASE kind = "str" -> fetch_str(P.s, P.cur[who], field)
             [] kind = "char" -> fetch_char(P.s, P.cur[who], field)
             [] kind = "str_opt" -> fetch_str_opt(P.s, P.cur[who], field)
             [] kind = "char_opt" -> fetch_char_opt(P.s, P.cur[who], field),
           LAMBDA r : Apply(P, who, field, r, -1))

\* cursor.fetch_usize(field, radix)?
FetchUsize(P, who, field, radix) ==
  IF Failed(P) THEN P
  ELSE Let(fetch_usize(P.s, P.cur[who], field, radix),
           LAMBDA r : Apply(P, who, field, r, IF r.err = <<>> THEN r.val ELSE -1))

\* cursor.fetch_str_len(field, n)? reading what remains when fewer than n
\* bytes remain
FetchLen_rest(P, who, field, n) ==
  IF Failed(P) THEN P
  ELSE Let(fetch_str_len(P.s, P.cur[who], field,
                         IF n > len(P.cur[who]) THEN len(P.cur[who]) ELSE n),
           LAMBDA r : Apply(P, who, field, r, -1))

\* cursor.fetch_str_len(field, n)?
FetchLen(P, who, field, n) ==
  IF Failed(P) THEN P
  ELSE Let(fetch_str_len(P.s, P.cur[who], field, n),
           LAMBDA r : Apply(P, who, field, r, -1))

\* let mut child = cursor.fetch_chunk(n)?
Carve(P, who, child, n) ==
  IF Failed(P) THEN P
  ELSE Let(fetch_chunk(P.cur[who], n), LAMBDA r :
       IF r.err # <<>> THEN [P EXCEPT !.err = r.err, !.at = who]
       ELSE [P EXCEPT !.cur[who] = r.chunk,
                      !.cur[child] = r.val,
                      !.log = Append(@, [who |-> who, field |-> child,
                                         lo |-> r.val.lo, hi |-> r.val.hi,
                                         end |-> P.cur[who].hi, n |-> n,
                                         carve |-> TRUE])])

RECURSIVE FetchAll(_, _, _)
\* a run of reads on one cursor, each followed by ?; reads is a sequence of
\* <<kind, field>>
FetchAll(P, who, reads) ==
  IF reads = <<>> \/ Failed(P) THEN P
  ELSE Then(Fetch(P, who, Head(reads)[1], Head(reads)[2]),
            LAMBDA Q : FetchAll(Q, who, Tail(reads)))

\* Option::map
Map(opt, F(_)) == IF opt = None THEN None ELSE Some(F(opt[1]))

(***************************************************************************)
(* Record model and value conversions (mod.rs).                             *)
(***************************************************************************)
\* char::default()
NUL == "NUL"

\* PaxType::from_char
PaxType_from_char(t) ==
  CASE t = " " -> <<"None">>
    [] t = "0" -> <<"Adult">>
    [] t = "1" -> <<"Male">>
    [] t = "2" -> <<"Female">>
    [] t = "3" -> <<"Child">>
    [] t = "4" -> <<"Infant">>
    [] t = "6" -> <<"CabinBaggage">>
    [] t = "7" -> <<"AdultWithInfant">>
    [] OTHER -> <<"Other", t>>

\* Leg::default()
Leg_default ==
  [pnr |-> <<>>, src_airport |-> <<>>, dst_airport |-> <<>>, airline |-> <<>>,
   flight_number |-> <<>>, flight_day |-> 0, compartment |-> NUL,
   seat |-> None, airline_num |-> None, sequence |-> None, pax_status |-> NUL,
   doc_number |-> None, marketing_airline |-> None,
   frequent_flyer_airline |-> None, frequent_flyer_number |-> None,
   fast_track |-> None, bag_allowance |-> None, var |-> None]

\* BCBP::default()
BCBP_default ==
  [version |-> None, pax_type |-> <<"None">>, doc_type |-> None,
   name_first |-> <<>>, name_last |-> <<>>, ticket_flag |-> NUL,
   legs |-> <<>>, bagtags |-> <<>>, checkin_src |-> None,
   boardingpass_src |-> None, boardingpass_issued |-> None,
   boardingpass_airline |-> None, security_data_type |-> None,
   security_data |-> None]

\* u16_from_str_force
u16_from_str_force(src, radix) ==
  LET v == u16_from_str_radix(trim_start_matches(trim(src), "0"), radix)
  IN IF v # None THEN v[1] ELSE 0

\* u32_from_str_opt
u32_from_str_opt(src, radix) ==
  u16_from_str_radix(trim_start_matches(trim(src), "0"), radix)

\* seat_opt
seat_opt(seat) ==
  LET tmp == trim_start_matches(trim(seat), "0")
  IN IF Len(tmp) <= 1 THEN None ELSE Some(tmp)

\* the offset of the first '/' of input, Len(input) when there is none
FirstSlash(input) ==
  IF \E i \in 1..Len(input) : input[i] = "/"
  THEN (CHOOSE i \in 1..Len(input) :
          input[i] = "/" /\ \A j \in 1..(i - 1) : input[j] # "/") - 1
  ELSE Len(input)

\* bcbp_name: <<last, first>> with first an Option
bcbp_name(input) ==
  LET have_first == \E i \in 1..Len(input) : input[i] = "/"
      last_end_idx == FirstSlash(input)
      last == trim_end(Slice(input, 0, last_end_idx))
      first == IF have_first
               THEN LET f == trim_end(Slice(input, last_end_idx + 1, Len(input)))
                    IN IF f # <<>> THEN Some(f) ELSE None
               ELSE None
  IN <<last, first>>

\* Option<String>::unwrap_or_default
unwrap_or_default(opt) == IF opt = None THEN <<>> ELSE opt[1]

(***************************************************************************)
(* Encoder (mod.rs).                                                        *)
(***************************************************************************)
\* BCBP::name without the truncation to the width of the name field
name_untruncated(b) == b.name_last \o <<"/">> \o b.name_first

\* BCBP::name
name(b) == truncate(b.name_last \o <<"/">> \o b.name_first, 20)

\* BCBP::legs_count
legs_count(b) == IF Len(b.legs) > 9 THEN 9 ELSE Len(b.legs)

\* Leg::flight_day_aligned
flight_day_aligned(l) ==
  IF l.flight_day = 0 THEN <<>> ELSE PadLeft(ToDec(l.flight_day), 3, "0")

\* Leg::seat_aligned
seat_aligned(l) ==
  IF l.seat # None THEN PadLeft(l.seat[1], 4, "0") ELSE <<>>

\* Leg::sequence_aligned
sequence_aligned(l) ==
  IF l.sequence # None THEN PadLeft(ToDec(l.sequence[1]), 4, "0") ELSE <<>>

\* the block BCBP::build emits for one leg
build_leg(l) ==
     PadRight(l.pnr, 7, " ")
  \o PadRight(l.src_airport, 3, " ")
  \o PadRight(l.dst_airport, 3, " ")
  \o PadRight(l.airline, 3, " ")
  \o PadRight(l.flight_number, 5, " ")
  \o PadRight(flight_day_aligned(l), 3, " ")
  \o <<l.compartment>>
  \o PadLeft(seat_aligned(l), 4, " ")
  \o PadRight(sequence_aligned(l), 5, " ")
  \o <<l.pax_status>>
  \o <<"0", "0">>

RECURSIVE build_legs(_)
\* the loop of BCBP::build over the legs
build_legs(legs) ==
  IF legs = <<>> THEN <<>> ELSE build_leg(Head(legs)) \o build_legs(Tail(legs))

\* BCBP::build
build(b) ==
     <<"M">> \o ToDec(legs_count(b)) \o PadRight(name(b), 20, " ")
  \o <<b.ticket_flag>> \o build_legs(b.legs)

(***************************************************************************)
(* Decoder BCBP::from (mod.rs).                                             *)
(***************************************************************************)
\* the cursor created over the upper-cased copy of the input
from_chunk_input_upper(src) == to_uppercase(src)

\* the string the cursor of BCBP::from is created over: the cursor is made
\* before src is shadowed by its upper-cased copy, so it reads the input as
\* given
from_chunk_input(src) == src

\* the state of a decoder about to read s
Start(s) ==
  [s |-> s,
   cur |-> [c \in Cursors |-> IF c = "chunk" THEN new(s) ELSE NoChunk],
   err |-> <<>>, at |-> "chunk", val |-> None, vals |-> <<>>, log |-> <<>>,
   out |-> BCBP_default, leg |-> Leg_default]

\* a leg count check without the lower bound
from_legs_ok_zero(legs) == ~(legs > 9)

\* the leg count BCBP::from accepts
from_legs_ok(legs) == ~(legs < 1 \/ legs > 9)

\* format code, number of legs, passenger name and e-ticket flag
from_header(P0) ==
  Then(Fetch(P0, "chunk", "char", "FormatCode"), LAMBDA P1 :
  IF P1.val # "M" THEN Fail(P1, <<"InvalidFormatCode", P1.val>>) ELSE
  Then(FetchUsize(P1, "chunk", "NumberOfLegsEncoded", 10), LAMBDA P2 :
  IF ~from_legs_ok(P2.val) THEN Fail(P2, <<"InvalidLegsCount">>) ELSE
  Then(Fetch(P2, "chunk", "str", "PassengerName"), LAMBDA P3 :
  Then(Fetch(P3, "chunk", "char", "ElectronicTicketIndicator"), LAMBDA P4 :
  Let(bcbp_name(P3.val), LAMBDA nm :
    [P4 EXCEPT !.out.name_last = nm[1],
               !.out.name_first = trim(unwrap_or_default(nm[2])),
               !.out.ticket_flag = P4.val])))))

\* the mandatory fields common to all legs, in wire order
MandatoryReads ==
  << <<"str", "OperatingCarrierPnrCode">>,
     <<"str", "FromCityAirportCode">>,
     <<"str", "ToCityAirportCode">>,
     <<"str", "OperatingCarrierDesignator">>,
     <<"str", "FlightNumber">>,
     <<"str", "DateOfFlight">>,
     <<"char", "CompartmentCode">>,
     <<"str", "SeatNumber">>,
     <<"str", "CheckInSequenceNumber">>,
     <<"char", "PassengerStatus">> >>

\* a fresh leg and its mandatory fields
from_leg_mandatory(P0) ==
  Then(FetchAll([P0 EXCEPT !.leg = Leg_default], "chunk", MandatoryReads),
       LAMBDA P1 :
  LET v == P1.vals
  IN [P1 EXCEPT !.leg =
       [Leg_default EXCEPT
          !.pnr = trim(v["OperatingCarrierPnrCode"]),
          !.src_airport = trim(v["FromCityAirportCode"]),
          !.dst_airport = trim(v["ToCityAirportCode"]),
          !.airline = trim(v["OperatingCarrierDesignator"]),
          !.flight_number = trim(v["FlightNumber"]),
          !.flight_day = u16_from_str_force(v["DateOfFlight"], 10),
          !.compartment = v["CompartmentCode"],
          !.seat = seat_opt(trim(v["SeatNumber"])),
          !.sequence = u32_from_str_opt(v["CheckInSequenceNumber"], 10),
          !.pax_status = v["PassengerStatus"]]])

\* the fields of the unique chunk BCBP::from reads, in wire order
UniqueReads ==
  << <<"char_opt", "PassengerDescription">>,
     <<"char_opt", "SourceOfCheckIn">>,
     <<"char_opt", "SourceOfBoardingPassIssuance">>,
     <<"str_opt", "DateOfIssueOfBoardingPass">>,
     <<"char_opt", "DocumentType">>,
     <<"str_opt", "AirlineDesignatorOfBoardingPassIssuer">> >>

ForceDec(x) == u16_from_str_force(x, 10)

ForceDecTrim(x) == u16_from_str_force(trim(x), 10)

\* the first leg's version prefix, version number and unique chunk
from_unique(P0) ==
  Then(Fetch(P0, "conditional_item", "char", "BeginningOfVersionNumber"),
       LAMBDA P1 :
  IF P1.val # "<" /\ P1.val # ">"
  THEN Fail(P1, <<"InvalidPrefix", "BeginningOfVersionNumber", P1.val>>) ELSE
  Then(Fetch(P1, "conditional_item", "char", "VersionNumber"), LAMBDA P2 :
  Let([P2 EXCEPT !.out.version = Some(P2.val)], LAMBDA P3 :
  IF ~(len(P3.cur["conditional_item"]) > 0) THEN P3 ELSE
  Then(FetchUsize(P3, "conditional_item",
                  "FieldSizeOfStructuredMessageUnique", 16), LAMBDA P4 :
  IF ~(P4.val > 0) THEN P4 ELSE
  Then(Carve(P4, "conditional_item", "unique_chunk", P4.val), LAMBDA P5 :
  Then(FetchAll(P5, "unique_chunk", UniqueReads), LAMBDA P6 :
  LET v == P6.vals
  IN [P6 EXCEPT
        !.out.pax_type =
           IF v["PassengerDescription"] = None THEN <<"None">>
           ELSE PaxType_from_char(v["PassengerDescription"][1]),
        !.out.checkin_src = v["SourceOfCheckIn"],
        !.out.boardingpass_src = v["SourceOfBoardingPassIssuance"],
        !.out.boardingpass_issued =
           Map(v["DateOfIssueOfBoardingPass"], ForceDec),
        !.out.doc_type = v["DocumentType"],
        !.out.boardingpass_airline =
           Map(v["AirlineDesignatorOfBoardingPassIssuer"], trim)]))))))

\* the fields of the repeated chunk, in wire order
RepeatedReads ==
  << <<"str_opt", "AirlineNumericCode">>,
     <<"str_opt", "DocumentFormSerialNumber">>,
     <<"char_opt", "SelecteeIndicator">>,
     <<"char_opt", "InternationalDocumentVerification">>,
     <<"str_opt", "MarketingCarrierDesignator">>,
     <<"str_opt", "FrequentFlyerAirlineDesignator">>,
     <<"str_opt", "FrequentFlyerNumber">>,
     <<"char_opt", "IdAdIndicator">>,
     <<"str_opt", "FreeBaggageAllowance">>,
     <<"char_opt", "FastTrack">> >>

\* the conditional fields common to all legs, the chunk carved whatever
\* its declared size
from_repeated_unguarded(P0) ==
  IF Failed(P0) \/ ~(len(P0.cur["conditional_item"]) > 0) THEN P0 ELSE
  Then(FetchUsize(P0, "conditional_item",
                  "FieldSizeOfStructuredMessageRepeated", 16), LAMBDA P1 :
  Then(Carve(P1, "conditional_item", "repeated_chunk", P1.val), LAMBDA P2 :
  Then(FetchAll(P2, "repeated_chunk", RepeatedReads), LAMBDA P3 : P3)))

\* the conditional fields common to all legs
from_repeated(P0) ==
  IF Failed(P0) \/ ~(len(P0.cur["conditional_item"]) > 0) THEN P0 ELSE
  Then(FetchUsize(P0, "conditional_item",
                  "FieldSizeOfStructuredMessageRepeated", 16), LAMBDA P1 :
  IF ~(P1.val > 0) THEN P1 ELSE
  Then(Carve(P1, "conditional_item", "repeated_chunk", P1.val), LAMBDA P2 :
  Then(FetchAll(P2, "repeated_chunk", RepeatedReads), LAMBDA P3 :
  LET v == P3.vals
  IN [P3 EXCEPT
        !.leg.airline_num = Map(v["AirlineNumericCode"], ForceDecTrim),
        !.leg.doc_number = Map(v["DocumentFormSerialNumber"], trim),
        !.leg.marketing_airline = Map(v["MarketingCarrierDesignator"], trim),
        !.leg.frequent_flyer_airline =
           Map(v["FrequentFlyerAirlineDesignator"], trim),
        !.leg.frequent_flyer_number = v["FrequentFlyerNumber"],
        !.leg.bag_allowance = Map(v["FreeBaggageAllowance"], trim),
        !.leg.fast_track = v["FastTrack"]])))

\* what remains of the conditional item, trimmed like the other text fields
from_individual_use_trimmed(P0) ==
  IF Failed(P0) \/ ~(len(P0.cur["conditional_item"]) > 0) THEN P0 ELSE
  Then(FetchLen(P0, "conditional_item", "AirlineIndividualUse",
                len(P0.cur["conditional_item"])), LAMBDA P1 :
  [P1 EXCEPT !.leg.var = Some(trim(P1.val))])

\* what remains of the conditional item is ascribed to airline use
from_individual_use(P0) ==
  IF Failed(P0) \/ ~(len(P0.cur["conditional_item"]) > 0) THEN P0 ELSE
  Then(FetchLen(P0, "conditional_item", "AirlineIndividualUse",
                len(P0.cur["conditional_item"])), LAMBDA P1 :
  [P1 EXCEPT !.leg.var = Some(P1.val)])

\* the size of the leg's conditional item, and the item, without the check
\* of the size against the input that remains
from_leg_conditional_unchecked(P0, leg_index) ==
  Then(FetchUsize(P0, "chunk", "FieldSizeOfVariableSizeField", 16), LAMBDA P1 :
  IF ~(P1.val > 0) THEN P1 ELSE
  Then(Carve(P1, "chunk", "conditional_item", P1.val), LAMBDA P2 :
  Then(IF leg_index = 0 THEN from_unique(P2) ELSE P2, LAMBDA P3 :
  Then(from_repeated(P3), LAMBDA P4 : from_individual_use(P4)))))

\* the size of the leg's conditional item, and the item, with the version
\* and the unique chunk read for every leg
from_leg_conditional_every(P0, leg_index) ==
  Then(FetchUsize(P0, "chunk", "FieldSizeOfVariableSizeField", 16), LAMBDA P1 :
  IF P1.val > len(P1.cur["chunk"]) THEN Fail(P1, <<"CoditionalDataSize">>) ELSE
  IF ~(P1.val > 0) THEN P1 ELSE
  Then(Carve(P1, "chunk", "conditional_item", P1.val), LAMBDA P2 :
  Then(from_unique(P2), LAMBDA P3 :
  Then(from_repeated(P3), LAMBDA P4 : from_individual_use(P4)))))

\* the size of the leg's conditional item, and the item, where the reading
\* of the item goes on from the end of the last known field of the unique
\* chunk instead of the end of the chunk
from_leg_conditional_resync(P0, leg_index) ==
  Then(FetchUsize(P0, "chunk", "FieldSizeOfVariableSizeField", 16), LAMBDA P1 :
  IF P1.val > len(P1.cur["chunk"]) THEN Fail(P1, <<"CoditionalDataSize">>) ELSE
  IF ~(P1.val > 0) THEN P1 ELSE
  Then(Carve(P1, "chunk", "conditional_item", P1.val), LAMBDA P2 :
  Then(IF leg_index = 0 THEN from_unique(P2) ELSE P2, LAMBDA P3 :
  Then(IF leg_index = 0 /\ P3.cur["unique_chunk"] # NoChunk
       THEN [P3 EXCEPT !.cur["conditional_item"].lo = P3.cur["unique_chunk"].lo]
       ELSE P3, LAMBDA P4 :
  Then(from_repeated(P4), LAMBDA P5 : from_individual_use(P5))))))

\* the size of the leg's conditional item, and the item
from_leg_conditional(P0, leg_index) ==
  Then(FetchUsize(P0, "chunk", "FieldSizeOfVariableSizeField", 16), LAMBDA P1 :
  IF P1.val > len(P1.cur["chunk"]) THEN Fail(P1, <<"CoditionalDataSize">>) ELSE
  IF ~(P1.val > 0) THEN P1 ELSE
  Then(Carve(P1, "chunk", "conditional_item", P1.val), LAMBDA P2 :
  Then(IF leg_index = 0 THEN from_unique(P2) ELSE P2, LAMBDA P3 :
  Then(from_repeated(P3), LAMBDA P4 : from_individual_use(P4)))))

\* one iteration of the loop over the legs, the leg put in front
from_leg_prepend(P0, leg_index) ==
  Then(from_leg_mandatory(P0), LAMBDA P1 :
  Then(from_leg_conditional(P1, leg_index), LAMBDA P2 :
  [P2 EXCEPT !.out.legs = <<P2.leg>> \o @]))

\* one iteration of the loop over the legs
from_leg(P0, leg_index) ==
  Then(from_leg_mandatory(P0), LAMBDA P1 :
  Then(from_leg_conditional(P1, leg_index), LAMBDA P2 :
  [P2 EXCEPT !.out.legs = Append(@, P2.leg)]))

RECURSIVE from_legs(_, _, _)
\* for leg_index in 0 .. legs
from_legs(P, leg_index, legs) ==
  IF Failed(P) \/ ~(leg_index < legs) THEN P
  ELSE Let(from_leg(P, leg_index),
           LAMBDA Q : from_legs(Q, leg_index + 1, legs))

\* the security section with all that remains taken as the payload,
\* whatever length is declared
from_security_rest(P0) ==
  IF Failed(P0) \/ ~(len(P0.cur["chunk"]) > 0) THEN P0 ELSE
  Then(Fetch(P0, "chunk", "char", "BeginningOfSecurityData"), LAMBDA P1 :
  IF P1.val # "^"
  THEN Fail(P1, <<"InvalidPrefix", "BeginningOfSecurityData", P1.val>>) ELSE
  Then(Fetch(P1, "chunk", "char_opt", "TypeOfSecurityData"), LAMBDA P2 :
  Let([P2 EXCEPT !.out.security_data_type = P2.val], LAMBDA P3 :
  IF ~(len(P3.cur["chunk"]) > 0) THEN P3 ELSE
  Then(FetchUsize(P3, "chunk", "LengthOfSecurityData", 16), LAMBDA P4 :
  IF ~(len(P4.cur["chunk"]) > 0) THEN P4 ELSE
  Then(FetchLen(P4, "chunk", "SecurityData", len(P4.cur["chunk"])), LAMBDA P5 :
  [P5 EXCEPT !.out.security_data = Some(P5.val)])))))

\* the input that remains after the legs is ascribed to security data
from_security(P0) ==
  IF Failed(P0) \/ ~(len(P0.cur["chunk"]) > 0) THEN P0 ELSE
  Then(Fetch(P0, "chunk", "char", "BeginningOfSecurityData"), LAMBDA P1 :
  IF P1.val # "^"
  THEN Fail(P1, <<"InvalidPrefix", "BeginningOfSecurityData", P1.val>>) ELSE
  Then(Fetch(P1, "chunk", "char_opt", "TypeOfSecurityData"), LAMBDA P2 :
  Let([P2 EXCEPT !.out.security_data_type = P2.val], LAMBDA P3 :
  IF ~(len(P3.cur["chunk"]) > 0) THEN P3 ELSE
  Then(FetchUsize(P3, "chunk", "LengthOfSecurityData", 16), LAMBDA P4 :
  IF ~(P4.val > 0) THEN P4 ELSE
  Then(FetchLen(P4, "chunk", "SecurityData", P4.val), LAMBDA P5 :
  [P5 EXCEPT !.out.security_data = Some(P5.val)])))))

\* BCBP::from without the check that no input is left
from_finish_unchecked(P) == P

\* the check that no input is left
from_finish(P) ==
  IF Failed(P) THEN P
  ELSE IF ~eof(P.cur["chunk"]) THEN Fail(P, <<"TrailingData">>)
  ELSE P

\* a minimum size one byte short
MandatoryDataMin_short == 60 - 1

\* the least number of bytes BCBP::from accepts
MandatoryDataMin == 60

\* BCBP::from with the size check made before the ASCII check
from_size_first(src) ==
  IF ByteLen(to_uppercase(src)) < MandatoryDataMin
  THEN Fail(Start(<<>>), <<"MandatoryDataSize">>)
  ELSE IF ~is_ascii(src) THEN Fail(Start(<<>>), <<"InvalidCharacters">>)
  ELSE
  Let(Start(from_chunk_input(src)), LAMBDA P0 :
       Then(from_header(P0), LAMBDA P1 :
       Let(from_legs(P1, 0, P1.vals["NumberOfLegsEncoded"]), LAMBDA P2 :
       Let(from_security(P2), LAMBDA P3 : from_finish(P3)))))

\* BCBP::from: the decoder's final state; Ok(P.out) when P.err = <<>>
from(src) ==
  IF ~is_ascii(src) THEN Fail(Start(<<>>), <<"InvalidCharacters">>)
  ELSE IF ByteLen(to_uppercase(src)) < MandatoryDataMin
  THEN Fail(Start(<<>>), <<"MandatoryDataSize">>)
  ELSE
  Let(Start(from_chunk_input(src)), LAMBDA P0 :
       Then(from_header(P0), LAMBDA P1 :
       Let(from_legs(P1, 0, P1.vals["NumberOfLegsEncoded"]), LAMBDA P2 :
       Let(from_security(P2), LAMBDA P3 : from_finish(P3)))))

(***************************************************************************)
(* Decoder raw::Bcbp::from (raw/parser.rs, raw/mod.rs).  Its record        *)
(* borrows the field bytes as they are.                                     *)
(***************************************************************************)
\* raw::Leg::default()
RawLeg_default ==
  [pnr |-> <<>>, src_airport |-> <<>>, dst_airport |-> <<>>, airline |-> <<>>,
   flight_number |-> <<>>, flight_day |-> <<>>, compartment |-> NUL,
   seat |-> <<>>, checkin_sequence |-> <<>>, pax_status |-> NUL,
   airline_numeric_code |-> None, document_form_serial_number |-> None,
   selectee_indicator |-> None, international_document_verification |-> None,
   marketing_carrier_designator |-> None, frequent_flyer_airline |-> None,
   frequent_flyer_number |-> None, id_ad_indicator |-> None,
   free_baggage_allowance |-> None, fast_track |-> None,
   airline_individual_use |-> None]

\* raw::Bcbp::default()
RawBcbp_default ==
  [pax_name |-> <<>>, eticket_flag |-> NUL, pax_description |-> None,
   source_of_check_in |-> None, source_of_boarding_pass_issuance |-> None,
   date_of_issue_of_boarding_pass |-> None, doc_type |-> None,
   airline_designator_of_boarding_pass_issuer |-> None,
   baggage_tag_license_plate_numbers |-> None,
   first_non_consecutive_baggage_tag_license_plate_numbers |-> None,
   second_non_consecutive_baggage_tag_license_plate_numbers |-> None,
   legs |-> <<>>,
   security_data |-> [type_of_security_data |-> None, security_data |-> None]]

\* format code, number of legs, passenger name and e-ticket flag
raw_header(P0) ==
  Then(Fetch(P0, "chunk", "char", "FormatCode"), LAMBDA P1 :
  IF P1.val # "M" THEN Fail(P1, <<"InvalidFormatCode", P1.val>>) ELSE
  Then(FetchUsize(P1, "chunk", "NumberOfLegsEncoded", 10), LAMBDA P2 :
  Then(Fetch(P2, "chunk", "str", "PassengerName"), LAMBDA P3 :
  Then(Fetch(P3, "chunk", "char", "ElectronicTicketIndicator"), LAMBDA P4 :
  [P4 EXCEPT !.out.pax_name = P3.val,
             !.out.eticket_flag = P4.val]))))

\* a fresh leg and its mandatory fields
raw_leg_mandatory(P0) ==
  Then(FetchAll([P0 EXCEPT !.leg = RawLeg_default], "chunk", MandatoryReads),
       LAMBDA P1 :
  LET v == P1.vals
  IN [P1 EXCEPT !.leg =
       [RawLeg_default EXCEPT
          !.pnr = v["OperatingCarrierPnrCode"],
          !.src_airport = v["FromCityAirportCode"],
          !.dst_airport = v["ToCityAirportCode"],
          !.airline = v["OperatingCarrierDesignator"],
          !.flight_number = v["FlightNumber"],
          !.flight_day = v["DateOfFlight"],
          !.compartment = v["CompartmentCode"],
          !.seat = v["SeatNumber"],
          !.checkin_sequence = v["CheckInSequenceNumber"],
          !.pax_status = v["PassengerStatus"]]])

\* the fields of the unique chunk raw::Bcbp::from reads, in wire order
RawUniqueReads ==
  UniqueReads \o
  << <<"str_opt", "BaggageTagLicensePlateNumbers">>,
     <<"str_opt", "FirstNonConsecutiveBaggageTagLicensePlateNumbers">>,
     <<"str_opt", "SecondNonConsecutiveBaggageTagLicensePlateNumbers">> >>

\* the first leg's version prefix, version number and unique chunk
raw_unique(P0) ==
  Then(Fetch(P0, "conditional_item", "char", "BeginningOfVersionNumber"),
       LAMBDA P1 :
  IF P1.val # "<" /\ P1.val # ">"
  THEN Fail(P1, <<"InvalidPrefix", "BeginningOfVersionNumber", P1.val>>) ELSE
  Then(IF len(P1.cur["conditional_item"]) > 0
       THEN Fetch(P1, "conditional_item", "str", "VersionNumber")
       ELSE P1, LAMBDA P2 :
  IF ~(len(P2.cur["conditional_item"]) > 0) THEN P2 ELSE
  Then(FetchUsize(P2, "conditional_item",
                  "FieldSizeOfStructuredMessageUnique", 16), LAMBDA P4 :
  IF ~(P4.val > 0) THEN P4 ELSE
  Then(Carve(P4, "conditional_item", "unique_chunk", P4.val), LAMBDA P5 :
  Then(FetchAll(P5, "unique_chunk", RawUniqueReads), LAMBDA P6 :
  LET v == P6.vals
  IN [P6 EXCEPT
        !.out.pax_description = v["PassengerDescription"],
        !.out.source_of_check_in = v["SourceOfCheckIn"],
        !.out.source_of_boarding_pass_issuance =
           v["SourceOfBoardingPassIssuance"],
        !.out.date_of_issue_of_boarding_pass =
           v["DateOfIssueOfBoardingPass"],
        !.out.doc_type = v["DocumentType"],
        !.out.airline_designator_of_boarding_pass_issuer =
           v["AirlineDesignatorOfBoardingPassIssuer"],
        !.out.baggage_tag_license_plate_numbers =
           v["BaggageTagLicensePlateNumbers"],
        !.out.first_non_consecutive_baggage_tag_license_plate_numbers =
           v["FirstNonConsecutiveBaggageTagLicensePlateNumbers"],
        !.out.second_non_consecutive_baggage_tag_license_plate_numbers =
           v["SecondNonConsecutiveBaggageTagLicensePlateNumbers"]])))))

\* the conditional fields common to all legs
raw_repeated(P0) ==
  IF Failed(P0) \/ ~(len(P0.cur["conditional_item"]) > 0) THEN P0 ELSE
  Then(FetchUsize(P0, "conditional_item",
                  "FieldSizeOfStructuredMessageRepeated", 16), LAMBDA P1 :
  IF ~(P1.val > 0) THEN P1 ELSE
  Then(Carve(P1, "conditional_item", "repeated_chunk", P1.val), LAMBDA P2 :
  Then(FetchAll(P2, "repeated_chunk", RepeatedReads), LAMBDA P3 :
  LET v == P3.vals
  IN [P3 EXCEPT
        !.leg.airline_numeric_code = v["AirlineNumericCode"],
        !.leg.document_form_serial_number = v["DocumentFormSerialNumber"],
        !.leg.selectee_indicator = v["SelecteeIndicator"],
        !.leg.international_document_verification =
           v["InternationalDocumentVerification"],
        !.leg.marketing_carrier_designator = v["MarketingCarrierDesignator"],
        !.leg.frequent_flyer_airline = v["FrequentFlyerAirlineDesignator"],
        !.leg.frequent_flyer_number = v["FrequentFlyerNumber"],
        !.leg.id_ad_indicator = v["IdAdIndicator"],
        !.leg.free_baggage_allowance = v["FreeBaggageAllowance"],
        !.leg.fast_track = v["FastTrack"]])))

\* what remains of the conditional item is ascribed to airline use
raw_individual_use(P0) ==
  IF Failed(P0) \/ ~(len(P0.cur["conditional_item"]) > 0) THEN P0 ELSE
  Then(FetchLen(P0, "conditional_item", "AirlineIndividualUse",
                len(P0.cur["conditional_item"])), LAMBDA P1 :
  [P1 EXCEPT !.leg.airline_individual_use = Some(P1.val)])

\* the size of the leg's conditional item, and the item
raw_leg_conditional(P0, leg_index) ==
  Then(FetchUsize(P0, "chunk", "FieldSizeOfVariableSizeField", 16), LAMBDA P1 :
  IF ~(P1.val > 0) THEN P1 ELSE
  Then(Carve(P1, "chunk", "conditional_item", P1.val), LAMBDA P2 :
  Then(IF leg_index = 0 THEN raw_unique(P2) ELSE P2, LAMBDA P3 :
  Then(raw_repeated(P3), LAMBDA P4 : raw_individual_use(P4)))))

\* one iteration of the loop over the legs
raw_leg(P0, leg_index) ==
  Then(raw_leg_mandatory(P0), LAMBDA P1 :
  Then(raw_leg_conditional(P1, leg_index), LAMBDA P2 :
  [P2 EXCEPT !.out.legs = Append(@, P2.leg)]))

RECURSIVE raw_legs(_, _, _)
\* for leg_index in 0..leg_count
raw_legs(P, leg_index, leg_count) ==
  IF Failed(P) \/ ~(leg_index < leg_count) THEN P
  ELSE Let(raw_leg(P, leg_index),
           LAMBDA Q : raw_legs(Q, leg_index + 1, leg_count))

\* the input that remains after the legs is ascribed to security data
raw_security(P0) ==
  IF Failed(P0) \/ ~(len(P0.cur["chunk"]) > 0) THEN P0 ELSE
  Then(Fetch(P0, "chunk", "char", "BeginningOfSecurityData"), LAMBDA P1 :
  IF P1.val # "^"
  THEN Fail(P1, <<"InvalidPrefix", "BeginningOfSecurityData", P1.val>>) ELSE
  Then(Fetch(P1, "chunk", "char_opt", "TypeOfSecurityData"), LAMBDA P2 :
  Let([P2 EXCEPT !.out.security_data.type_of_security_data = P2.val], LAMBDA P3 :
  IF ~(len(P3.cur["chunk"]) > 0) THEN P3 ELSE
  Then(FetchUsize(P3, "chunk", "LengthOfSecurityData", 16), LAMBDA P4 :
  IF ~(P4.val > 0) THEN P4 ELSE
  Then(FetchLen(P4, "chunk", "SecurityData", P4.val), LAMBDA P5 :
  [P5 EXCEPT !.out.security_data.security_data = Some(P5.val)])))))

\* the check that no input is left
raw_finish(P) ==
  IF Failed(P) THEN P
  ELSE IF ~eof(P.cur["chunk"]) THEN Fail(P, <<"TrailingData">>)
  ELSE P

\* raw::parser::from_str, which raw::Bcbp::from calls: the decoder's final
\* state; Ok(P.out) when P.err = <<>>
from_str(input) ==
  IF ~is_ascii(input)
  THEN Fail([Start(<<>>) EXCEPT !.out = RawBcbp_default], <<"InvalidCharacters">>)
  ELSE Let([Start(input) EXCEPT !.out = RawBcbp_default], LAMBDA P0 :
       Then(raw_header(P0), LAMBDA P1 :
       Let(raw_legs(P1, 0, P1.vals["NumberOfLegsEncoded"]), LAMBDA P2 :
       Let(raw_security(P2), LAMBDA P3 : raw_finish(P3)))))

(***************************************************************************)
(* Inputs.  An input is assembled from a format code, a leg-count byte, a  *)
(* 20-byte name field, an e-ticket flag, per leg a 35-byte mandatory block *)
(* followed by the 2-byte conditional size and the conditional item, and a *)
(* tail after the last leg.                                                 *)
(***************************************************************************)
\* passenger names, before padding to the 20-byte field
NameTexts ==
  <<
  \* "TEST/HIDDEN"
     <<"T","E","S","T","/","H","I","D","D","E","N">>,
  \* "TEST"
     <<"T","E","S","T">>,
  \* "VERYLONGESTLASTNAMED"
     <<"V","E","R","Y","L","O","N","G","E","S","T","L","A","S","T","N","A","M","E","D">>,
  \* "Ab  / Cd e/F"
     <<"A","b"," "," ","/"," ","C","d"," ","e","/","F">>,
  \* "IVANOVA VASILINA/"
     <<"I","V","A","N","O","V","A"," ","V","A","S","I","L","I","N","A","/">>
  >>

\* mandatory leg blocks: PNR 7, from 3, to 3, carrier 3, flight 5, day 3,
\* compartment 1, seat 4, sequence 5, status 1
LegBlocks ==
  <<
  \* "ABC123 YULFRAAC 0834 326J001A0025 1"
     <<"A","B","C","1","2","3"," ","Y","U","L","F","R","A","A","C"," ","0","8","3","4"," ","3","2","6","J","0","0","1","A","0","0","2","5"," ","1">>,
  \* "JNUFFX                             "
     <<"J","N","U","F","F","X"," "," "," "," "," "," "," "," "," "," "," "," "," "," "," "," "," "," "," "," "," "," "," "," "," "," "," "," "," ">>,
  \* "8OQ6FU FRARLGLH 4010 001CINF 123453"
     <<"8","O","Q","6","F","U"," ","F","R","A","R","L","G","L","H"," ","4","0","1","0"," ","0","0","1","C","I","N","F"," ","1","2","3","4","5","3">>,
  \* "AGGA   SVOJFKB  12A  1  Y000A0000 0"
     <<"A","G","G","A"," "," "," ","S","V","O","J","F","K","B"," "," ","1","2","A"," "," ","1"," "," ","Y","0","0","0","A","0","0","0","0"," ","0">>,
  \* "1A0D31JLEDFRAWOW5678Z+12M0 1Z99999x"
     <<"1","A","0","D","3","1","J","L","E","D","F","R","A","W","O","W","5","6","7","8","Z","+","1","2","M","0"," ","1","Z","9","9","9","9","9","x">>,
  \* " XY 12 AAAAABUK  99  999 12B 12A   "
     <<" ","X","Y"," ","1","2"," ","A","A","A","A","A","B","U","K"," "," ","9","9"," "," ","9","9","9"," ","1","2","B"," ","1","2","A"," "," "," ">>
  >>

\* conditional size and item of the first leg
FirstConds ==
  <<
  \* "00"
     <<"0","0">>,
  \* "02>5"
     <<"0","2",">","5">>,
  \* "01>"
     <<"0","1",">">>,
  \* "04>500"
     <<"0","4",">","5","0","0">>,
  \* "11>50B0WW6012BLH 00"
     <<"1","1",">","5","0","B","0","W","W","6","0","1","2","B","L","H"," ","0","0">>,
  \* "07>5031WW"
     <<"0","7",">","5","0","3","1","W","W">>,
  \* "0B>5051WW6000"
     <<"0","B",">","5","0","5","1","W","W","6","0","0","0">>,
  \* "18>50D0WW6012BLH XY03027ZZ"
     <<"1","8",">","5","0","D","0","W","W","6","0","1","2","B","L","H"," ","X","Y","0","3","0","2","7","Z","Z">>,
  \* "02+5"
     <<"0","2","+","5">>,
  \* "FF>5"
     <<"F","F",">","5">>,
  \* "ZZ"
     <<"Z","Z">>,
  \* "07>5091WW"
     <<"0","7",">","5","0","9","1","W","W">>,
  \* "15<5000D0271234567890xy"
     <<"1","5","<","5","0","0","0","D","0","2","7","1","2","3","4","5","6","7","8","9","0","x","y">>,
  \* "04>50Z"
     <<"0","4",">","5","0","Z">>,
  \* "+2>5"
     <<"+","2",">","5">>,
  \* "69>5340WW6012BLH 0014123456003             0014123456789??2C22012345678901 LH LH 992003937280204  20KY!!K09"
     <<"6","9",">","5","3","4","0","W","W","6","0","1","2","B","L","H"," ","0","0","1","4","1","2","3","4","5","6","0","0","3"," "," "," "," "," "," "," "," "," "," "," "," "," ","0","0","1","4","1","2","3","4","5","6","7","8","9","?","?","2","C","2","2","0","1","2","3","4","5","6","7","8","9","0","1"," ","L","H"," ","L","H"," ","9","9","2","0","0","3","9","3","7","2","8","0","2","0","4"," "," ","2","0","K","Y","!","!","K","0","9">>,
  \* "09>50000 a "
     <<"0","9",">","5","0","0","0","0"," ","a"," ">>
  >>

\* conditional size and item of a later leg
LaterConds ==
  <<
  \* "00"
     <<"0","0">>,
  \* "0503027"
     <<"0","5","0","3","0","2","7">>,
  \* "0703027ZZ"
     <<"0","7","0","3","0","2","7","Z","Z">>,
  \* "06040271"
     <<"0","6","0","4","0","2","7","1">>,
  \* "0200"
     <<"0","2","0","0">>,
  \* "03>5X"
     <<"0","3",">","5","X">>,
  \* "0505027"
     <<"0","5","0","5","0","2","7">>,
  \* "03x1A"
     <<"0","3","x","1","A">>,
  \* "0803027 Z "
     <<"0","8","0","3","0","2","7"," ","Z"," ">>
  >>

\* what follows the last leg
SecurityTails ==
  <<
  \* ""
     <<>>,
  \* "^"
     <<"^">>,
  \* "^1"
     <<"^","1">>,
  \* "^100"
     <<"^","1","0","0">>,
  \* "^103ABC"
     <<"^","1","0","3","A","B","C">>,
  \* "^105AB"
     <<"^","1","0","5","A","B">>,
  \* "+100"
     <<"+","1","0","0">>,
  \* "^1YY"
     <<"^","1","Y","Y">>,
  \* "^100+"
     <<"^","1","0","0","+">>,
  \* "^10"
     <<"^","1","0">>
  >>

\* the 20-byte passenger name field holding the text t
Name20(t) == PadRight(t, 20, " ")

RECURSIVE LaterLegs(_, _, _, _)
\* legs k..n of an input: their mandatory blocks rotate through LegBlocks
\* from block t on, each is followed by the conditional d
LaterLegs(k, n, t, d) ==
  IF k > n THEN <<>>
  ELSE LegBlocks[((t + k - 2) % Len(LegBlocks)) + 1] \o LaterConds[d]
         \o LaterLegs(k + 1, n, t, d)

\* the legs of an input with n leg blocks
Body(n, t0, c0, t1, d) ==
  LegBlocks[t0] \o FirstConds[c0] \o LaterLegs(2, n, t1, d)

Assemble(fmt, digit, nm, etk, body, tail) ==
  <<fmt, digit>> \o Name20(nm) \o <<etk>> \o body \o tail

\* the decimal digit for n legs
LegDigit(n) == Digits[n + 1]

\* inputs with mandatory fields only: every name with every leg block, and
\* every pair of leg blocks
MandatoryOnly ==
  { Assemble("M", LegDigit(1), NameTexts[i], IF i % 2 = 1 THEN "E" ELSE " ",
             Body(1, t0, 1, 1, 1), <<>>) :
      i \in 1..Len(NameTexts), t0 \in 1..Len(LegBlocks) }
  \cup
  { Assemble("M", LegDigit(n), NameTexts[1], "E", Body(n, t0, 1, t1, 1), <<>>) :
      n \in 2..MaxLegs, t0 \in 1..Len(LegBlocks), t1 \in 1..Len(LegBlocks) }

\* inputs with conditional items and tails
Conditional ==
  { Assemble("M", LegDigit(1), NameTexts[1], "E", Body(1, 1, c0, 1, 1),
             SecurityTails[t]) :
      c0 \in 1..Len(FirstConds), t \in 1..Len(SecurityTails) }
  \cup
  { Assemble("M", LegDigit(n), NameTexts[1], "E", Body(n, 1, c0, 2, d),
             SecurityTails[t]) :
      n \in 2..MaxLegs, c0 \in {1, 5, 8, 13}, d \in 1..Len(LaterConds),
      t \in 1..Len(SecurityTails) }

\* format codes and leg-count bytes
FormatCodes == {"M", "m", "S", "X", " "}

LegCountBytes == {"0", "1", "2", "3", "9", "A", "x", "+", "-", " "}

\* inputs with any format code and leg-count byte, whatever legs follow
HeaderVariants ==
  { Assemble(f, c, NameTexts[1], "E", Body(n, 1, 1, 2, d), SecurityTails[t]) :
      f \in FormatCodes, c \in LegCountBytes, n \in 1..2, d \in {1, 3},
      t \in {1, 4} }

\* the lengths inputs are cut to
CutLengths == {0, 1, 2, 11, 22, 23, 40, 58, 59}

\* inputs cut short
Truncated ==
  { SubSeq(Assemble(f, c, NameTexts[1], "E", Body(1, 1, 1, 1, 1), <<>>), 1, k) :
      f \in {"M", "S"}, c \in {"0", "1", "2", "A"}, k \in CutLengths }

\* s with its k-th character replaced by c
Replace(s, k, c) == [i \in 1..Len(s) |-> IF i = k THEN c ELSE s[i]]

\* inputs holding a character that is not ASCII
NotAscii ==
  { Replace(s, k, "U+00E7") :
      s \in { x \in (HeaderVariants \cup Truncated) : Len(x) \in {1, 11, 59, 60} },
      k \in {1, 2, 11, 59, 60} }

\* the passenger description characters of the inputs
PaxChars == {" ", "0", "1", "2", "3", "4", "5", "6", "7", "8", "A"}

\* inputs whose unique chunk holds a passenger description only
PaxInputs ==
  { Assemble("M", LegDigit(1), NameTexts[1], "E",
             LegBlocks[1] \o <<"0", "5", ">", "5", "0", "1", c>>, <<>>) :
      c \in PaxChars }

Inputs == MandatoryOnly \cup Conditional \cup HeaderVariants \cup Truncated
            \cup NotAscii \cup PaxInputs

\* the bytes a caller appends to an input
TrailBytes == {"^", "+", "0", "A", " "}

(***************************************************************************)
(* The program: a caller decodes an input with both decoders, then either  *)
(* encodes the decoded record and decodes the encoding again, or decodes   *)
(* the input followed by one more byte.                                     *)
(***************************************************************************)
VARIABLES
  src,     \* the input
  pc,      \* what the caller has done so far
  res,     \* the final state of BCBP::from(src)
  rawres,  \* the final state of raw::Bcbp::from(src)
  built,   \* the string BCBP::build returned
  res2,    \* the final state of BCBP::from(built)
  extra,   \* the byte appended to src
  tres,    \* the final state of BCBP::from(src + extra)
  trawres  \* the final state of raw::Bcbp::from(src + extra)

vars == <<src, pc, res, rawres, built, res2, extra, tres, trawres>>

\* a decoder that was not run
Idle == [err |-> <<"Idle">>]

Init ==
  /\ src \in Inputs
  /\ pc = "start"
  /\ res = Idle
  /\ rawres = Idle
  /\ built = None
  /\ res2 = Idle
  /\ extra = None
  /\ tres = Idle
  /\ trawres = Idle

\* BCBP::from(src)
Decode ==
  /\ pc = "start"
  /\ res' = from(src)
  /\ pc' = "decoded"
  /\ UNCHANGED <<src, rawres, built, res2, extra, tres, trawres>>

\* raw::Bcbp::from(src)
RawDecode ==
  /\ pc = "decoded"
  /\ rawres' = from_str(src)
  /\ pc' = "rawdecoded"
  /\ UNCHANGED <<src, res, built, res2, extra, tres, trawres>>

\* bcbp.build() on the record BCBP::from returned
Build ==
  /\ pc = "rawdecoded"
  /\ res.err = <<>>
  /\ built' = Some(build(res.out))
  /\ pc' = "built"
  /\ UNCHANGED <<src, res, rawres, res2, extra, tres, trawres>>

\* BCBP::from on the string build returned
Reparse ==
  /\ pc = "built"
  /\ res2' = from(built[1])
  /\ pc' = "reparsed"
  /\ UNCHANGED <<src, res, rawres, built, extra, tres, trawres>>

\* both decoders on src followed by the byte b
DecodeTrailing(b) ==
  /\ pc = "rawdecoded"
  /\ extra' = Some(b)
  /\ tres' = from(src \o <<b>>)
  /\ trawres' = from_str(src \o <<b>>)
  /\ pc' = "trailed"
  /\ UNCHANGED <<src, res, rawres, built, res2>>

Next ==
  \/ Decode
  \/ RawDecode
  \/ Build
  \/ Reparse
  \/ \E b \in TrailBytes : DecodeTrailing(b)

Spec == Init /\ [][Next]_vars

(***************************************************************************)
(* Reference readings of an input, computed from its bytes alone.           *)
(***************************************************************************)
DecimalDigits == {"0", "1", "2", "3", "4", "5", "6", "7", "8", "9"}

\* the value of the two hex digits of s at 0-based offset off
HexAt(s, off) == DigitsValue(Slice(s, off, off + 2), 16, 0)

RECURSIVE LegOffset(_, _)
\* the 0-based offset of the mandatory block of leg i (from 1) of s: the
\* header takes 23 bytes, each leg 37 and its declared conditional size
LegOffset(s, i) ==
  IF i = 1 THEN 23
  ELSE LegOffset(s, i - 1) + 37 + HexAt(s, LegOffset(s, i - 1) + 35)

\* s is a 23-byte header followed by n legs of 37 bytes, each with
\* conditional size "00", and nothing else
IsMandatoryOnly(s) ==
  /\ Len(s) >= 60
  /\ s[2] \in DecimalDigits \ {"0"}
  /\ LET n == to_digit(s[2], 10)
     IN /\ Len(s) = 23 + 37 * n
        /\ \A k \in 1..n : Slice(s, 23 + 37 * k - 2, 23 + 37 * k) = <<"0", "0">>

\* the caller has run both decoders on src
Decoded == pc \notin {"start", "decoded"}

(***************************************************************************)
(* C1.  Round trip of mandatory-only passes: when BCBP::from accepts an    *)
(* input made of the 23-byte header and n legs of 37 bytes with            *)
(* conditional size "00", build() of the decoded record returns the input  *)
(* byte for byte.                                                           *)
(***************************************************************************)
C1_RoundTrip ==
  (built # None /\ IsMandatoryOnly(src)) => built[1] = src

(***************************************************************************)
(* C2.  Idempotent re-parse: BCBP::from of the string build() returned     *)
(* succeeds and agrees with the first decoding on every mandatory field.    *)
(***************************************************************************)
MandatoryOfLeg(l) ==
  <<l.pnr, l.src_airport, l.dst_airport, l.airline, l.flight_number,
    l.flight_day, l.compartment, l.seat, l.sequence, l.pax_status>>

MandatoryOf(b) ==
  <<b.name_last, b.name_first, b.ticket_flag,
    [i \in 1..Len(b.legs) |-> MandatoryOfLeg(b.legs[i])]>>

C2_IdempotentReparse ==
  pc = "reparsed" =>
    /\ res2.err = <<>>
    /\ MandatoryOf(res2.out) = MandatoryOf(res.out)

\* a pass with conditional and security data, and one whose name fills the
\* field, was encoded and decoded again
C2_Witness ==
  /\ pc = "reparsed"
  /\ res.out.version # None
  /\ res.out.security_data # None
  /\ Len(res.out.legs) >= 2
  /\ res.out.legs[1].seat # None
  /\ built[1] # src

(***************************************************************************)
(* C3.  Leg count: a record a decoder returns has as many legs as the      *)
(* leg-count digit at offset 1 says, and leg i holds the mandatory block   *)
(* found at the i-th leg offset of the input.                               *)
(***************************************************************************)
C3_LegCount ==
  /\ (Decoded /\ res.err = <<>>) =>
       /\ Len(res.out.legs) = to_digit(src[2], 10)
       /\ \A i \in 1..Len(res.out.legs) :
            /\ res.out.legs[i].pnr =
                 trim(Slice(src, LegOffset(src, i), LegOffset(src, i) + 7))
            /\ res.out.legs[i].pax_status = src[LegOffset(src, i) + 35]
  /\ (Decoded /\ rawres.err = <<>>) =>
       /\ Len(rawres.out.legs) = to_digit(src[2], 10)
       /\ \A i \in 1..Len(rawres.out.legs) :
            /\ rawres.out.legs[i].pnr =
                 Slice(src, LegOffset(src, i), LegOffset(src, i) + 7)
            /\ rawres.out.legs[i].pax_status = src[LegOffset(src, i) + 35]

\* both decoders returned a record of two or more legs whose first two legs
\* differ, the first with a conditional item
C3_Witness ==
  /\ Decoded
  /\ res.err = <<>>
  /\ rawres.err = <<>>
  /\ Len(res.out.legs) >= 2
  /\ Len(rawres.out.legs) = Len(res.out.legs)
  /\ res.out.legs[1].pnr # res.out.legs[2].pnr
  /\ res.out.version # None

(***************************************************************************)
(* C4.  Leg count rejection in BCBP::from: for an ASCII input of at least  *)
(* 60 bytes that starts with 'M', the leg-count byte '0' gives             *)
(* InvalidLegsCount, a byte that is no decimal digit gives                 *)
(* ExpectedInteger(NumberOfLegsEncoded), and the passenger name is read    *)
(* exactly when the byte is one of '1'..'9'.                                *)
(***************************************************************************)
ReadsField(P, field) == \E k \in 1..Len(P.log) : P.log[k].field = field

C4_LegCountRejection ==
  (Decoded /\ is_ascii(src) /\ Len(src) >= 60 /\ src[1] = "M") =>
    /\ src[2] = "0" => res.err = <<"InvalidLegsCount">>
    /\ src[2] \notin DecimalDigits =>
         res.err = <<"ExpectedInteger", "NumberOfLegsEncoded">>
    /\ src[2] \in DecimalDigits \ {"0"} <=> ReadsField(res, "PassengerName")

\* BCBP::from met the leg-count byte '0' in an input long enough
C4_Witness ==
  /\ Decoded
  /\ Len(src) >= 60
  /\ src[1] = "M"
  /\ src[2] = "0"
  /\ res.err = <<"InvalidLegsCount">>

(***************************************************************************)
(* C5.  Exact consumption: when a decoder returns Ok, the reads on its     *)
(* top-level cursor take the bytes of the input from first to last, each   *)
(* byte once, and the input length is 23 + the sum over the legs of 37 +   *)
(* the declared conditional size + the length of the security tail, where  *)
(* the tail is the '^', the kind, the 2-digit length and as many bytes as  *)
(* the length declares, as far as they are present.                         *)
(***************************************************************************)
\* the entries of the log of P for reads on its top-level cursor
TopLog(P) == SelectSeq(P.log, LAMBDA e : e.who = "chunk")

\* the entries tile [0, n): each begins where the one before ends
Tiles(L, n) ==
  /\ L # <<>> => L[1].lo = 0 /\ L[Len(L)].hi = n
  /\ L = <<>> => n = 0
  /\ \A k \in 1..(Len(L) - 1) : L[k].hi = L[k + 1].lo
  /\ \A k \in 1..Len(L) : L[k].lo < L[k].hi

\* 37 bytes and the declared conditional size for the size field of a leg,
\* the bytes a security field stands for, 0 for any other read
DeclaredBytes(e) ==
  CASE e.field = "FieldSizeOfVariableSizeField" -> 37 + e.n
    [] e.field = "BeginningOfSecurityData" -> 1
    [] e.field = "TypeOfSecurityData" -> 1
    [] e.field = "LengthOfSecurityData" -> 2 + e.n
    [] OTHER -> 0

RECURSIVE SumDeclared(_)
\* the sum of the declared bytes over the entries of L
SumDeclared(L) ==
  IF L = <<>> THEN 0 ELSE DeclaredBytes(Head(L)) + SumDeclared(Tail(L))

ExactlyConsumed(P, s) ==
  /\ Tiles(TopLog(P), Len(s))
  /\ Len(s) = 23 + SumDeclared(TopLog(P))

C5_ExactConsumption ==
  /\ (Decoded /\ res.err = <<>>) => ExactlyConsumed(res, src)
  /\ (Decoded /\ rawres.err = <<>>) => ExactlyConsumed(rawres, src)
  /\ (pc = "trailed" /\ tres.err = <<>>) =>
       ExactlyConsumed(tres, src \o <<extra[1]>>)
  /\ (pc = "trailed" /\ trawres.err = <<>>) =>
       ExactlyConsumed(trawres, src \o <<extra[1]>>)

\* both decoders accepted an input with a conditional item holding a unique
\* chunk, a repeated chunk and airline data, followed by a security payload
C5_Witness ==
  /\ Decoded
  /\ res.err = <<>>
  /\ rawres.err = <<>>
  /\ ReadsField(res, "unique_chunk")
  /\ ReadsField(res, "repeated_chunk")
  /\ ReadsField(res, "AirlineIndividualUse")
  /\ res.out.security_data # None

(***************************************************************************)
(* C6.  Trailing data, as claimed: an accepted input followed by any one   *)
(* ASCII byte fails with TrailingData.                                      *)
(***************************************************************************)
C6_TrailingData_Claimed ==
  pc = "trailed" =>
    /\ res.err = <<>> => tres.err = <<"TrailingData">>
    /\ rawres.err = <<>> => trawres.err = <<"TrailingData">>

(***************************************************************************)
(* C6, amended.  An accepted input followed by one more ASCII byte fails   *)
(* with TrailingData exactly when the input already holds the length field *)
(* of its security section; otherwise the byte is read as the next byte of *)
(* the security section.                                                    *)
(***************************************************************************)
C6_TrailingData ==
  pc = "trailed" =>
    /\ res.err = <<>> =>
         (tres.err = <<"TrailingData">>
            <=> ReadsField(res, "LengthOfSecurityData"))
    /\ rawres.err = <<>> =>
         (trawres.err = <<"TrailingData">>
            <=> ReadsField(rawres, "LengthOfSecurityData"))

\* a byte was appended to an accepted input with a security payload, and
\* both decoders returned TrailingData
C6_Witness ==
  /\ pc = "trailed"
  /\ res.err = <<>>
  /\ rawres.err = <<>>
  /\ res.out.security_data # None
  /\ tres.err = <<"TrailingData">>
  /\ trawres.err = <<"TrailingData">>

(***************************************************************************)
(* C7.  Subsection containment: a read on a carved cursor takes its bytes  *)
(* from inside the range the cursor was carved with, a read of a           *)
(* fixed-length field takes exactly the field's length, and a read that    *)
(* fails with UnexpectedEndOfInput(field) on a carved cursor found fewer   *)
(* bytes left in it than the field is long.                                 *)
(***************************************************************************)
\* the entry that carved the cursor read from at entry k of L
CarveOf(L, k) ==
  L[CHOOSE j \in 1..(k - 1) :
      /\ L[j].carve /\ L[j].field = L[k].who
      /\ \A i \in (j + 1)..(k - 1) : ~(L[i].carve /\ L[i].field = L[k].who)]

Contained(P) ==
  /\ \A k \in 1..Len(P.log) :
       LET e == P.log[k] IN
       /\ e.hi <= e.end
       /\ (~e.carve /\ FieldLen(e.field) # 0) => e.hi - e.lo = FieldLen(e.field)
       /\ e.who # "chunk" =>
            /\ \E j \in 1..(k - 1) : P.log[j].carve /\ P.log[j].field = e.who
            /\ CarveOf(P.log, k).lo <= e.lo
            /\ e.hi <= CarveOf(P.log, k).hi
            /\ CarveOf(P.log, k).hi - CarveOf(P.log, k).lo = CarveOf(P.log, k).n
  /\ (P.err # <<>> /\ P.err[1] = "UnexpectedEndOfInput" /\ P.at # "chunk") =>
       len(P.cur[P.at]) < FieldLen(P.err[2])
  /\ (P.err # <<>> /\ P.err[1] = "SubsectionTooLong" /\ P.at # "chunk") =>
       len(P.cur[P.at]) < P.val
  /\ \A c \in Cursors : P.cur[c].lo <= P.cur[c].hi

C7_Containment ==
  /\ Decoded => Contained(res) /\ Contained(rawres)
  /\ pc = "trailed" => Contained(tres) /\ Contained(trawres)

\* a field of the unique chunk needed more bytes than the chunk had left
\* while bytes followed the chunk in the input
C7_Witness ==
  /\ Decoded
  /\ res.err = <<"UnexpectedEndOfInput", "DateOfIssueOfBoardingPass">>
  /\ res.at = "unique_chunk"
  /\ len(res.cur["unique_chunk"]) > 0
  /\ len(res.cur["conditional_item"]) > 0
  /\ rawres.err = res.err

(***************************************************************************)
(* C8.  Format code: an input that passes the upfront checks and whose     *)
(* first byte c is not 'M' fails with InvalidFormatCode(c), c as given.     *)
(***************************************************************************)
C8_FormatCode ==
  Decoded =>
    /\ (is_ascii(src) /\ Len(src) >= 60 /\ src[1] # "M") =>
         res.err = <<"InvalidFormatCode", src[1]>>
    /\ (is_ascii(src) /\ Len(src) >= 1 /\ src[1] # "M") =>
         rawres.err = <<"InvalidFormatCode", src[1]>>

\* an input that differs from a valid one in its lower-case 'm' was rejected
C8_Witness ==
  /\ Decoded
  /\ Len(src) >= 60
  /\ src[1] = "m"
  /\ src[2] = "1"
  /\ res.err = <<"InvalidFormatCode", "m">>
  /\ rawres.err = <<"InvalidFormatCode", "m">>

(***************************************************************************)
(* C9.  The ASCII check comes first: an input holding a non-ASCII          *)
(* character fails with InvalidCharacters whatever else is wrong with it.   *)
(***************************************************************************)
C9_AsciiFirst ==
  (Decoded /\ ~is_ascii(src)) =>
    /\ res.err = <<"InvalidCharacters">>
    /\ rawres.err = <<"InvalidCharacters">>

\* a one-character input that is not ASCII was rejected for its character
C9_Witness ==
  /\ Decoded
  /\ src = <<"U+00E7">>
  /\ res.err = <<"InvalidCharacters">>
  /\ rawres.err = <<"InvalidCharacters">>

Oversized(L, s) ==
  {k \in 1..Len(L) : /\ L[k].who = "chunk"
                     /\ L[k].field = "FieldSizeOfVariableSizeField"
                     /\ L[k].n = HexAt(s, L[k].lo)
                     /\ L[k].n > Len(s) - L[k].hi}

(***************************************************************************)
(* C11.  Oversized conditional block: when the size a leg declares for its *)
(* conditional item is larger than the input that remains after the size   *)
(* field, BCBP::from fails with CoditionalDataSize and raw::Bcbp::from     *)
(* with SubsectionTooLong; neither returns a record.                        *)
(***************************************************************************)
C11_OversizedConditional ==
  Decoded =>
    /\ Oversized(res.log, src) # {} => res.err = <<"CoditionalDataSize">>
    /\ Oversized(rawres.log, src) # {} => rawres.err = <<"SubsectionTooLong">>

\* the first leg declares a conditional item of 255 bytes where fewer
\* remain, and both decoders rejected the input
C11_Witness ==
  /\ Decoded
  /\ Len(src) > 60
  /\ HexAt(src, 58) = 255
  /\ Oversized(res.log, src) # {}
  /\ Oversized(rawres.log, src) # {}
  /\ res.err = <<"CoditionalDataSize">>
  /\ rawres.err = <<"SubsectionTooLong">>

\* the decoder with final state P carved a conditional item for leg 0 of s,
\* which starts at offset 60, and c is its first byte
FirstItemStarts(P, c) ==
  /\ \E k \in 1..Len(P.log) : /\ P.log[k].carve
                              /\ P.log[k].who = "chunk"
                              /\ P.log[k].field = "conditional_item"
                              /\ P.log[k].lo = 60
                              /\ P.log[k].hi > 60
  /\ c = P.s[61]

\* the decoder with final state P found input left after the last leg of
\* s, and c is the first byte of it
TailStarts(P, c) ==
  \E k \in 1..Len(P.log) :
    /\ P.log[k].who = "chunk"
    /\ P.log[k].field = "BeginningOfSecurityData"
    /\ P.log[k].lo = LegOffset(P.s, to_digit(P.s[2], 10) + 1)
    /\ Len(P.out.legs) = to_digit(P.s[2], 10)
    /\ c = P.s[P.log[k].lo + 1]

\* what C12 says of one decoder
PrefixesChecked(P) ==
  \A c \in {P.s[i] : i \in 1..Len(P.s)} :
    /\ (FirstItemStarts(P, c) /\ c \notin {"<", ">"}) =>
         P.err = <<"InvalidPrefix", "BeginningOfVersionNumber", c>>
    /\ (TailStarts(P, c) /\ c # "^") =>
         P.err = <<"InvalidPrefix", "BeginningOfSecurityData", c>>

(***************************************************************************)
(* C12.  Boundary prefixes, in both decoders: when the conditional item of *)
(* leg 0 is not empty and its first byte c is neither '<' nor '>', the     *)
(* decoder fails with InvalidPrefix(BeginningOfVersionNumber, c); when     *)
(* input remains after the last leg and its first byte c is not '^', the   *)
(* decoder fails with InvalidPrefix(BeginningOfSecurityData, c).  The      *)
(* error carries the field and the offending byte.                          *)
(***************************************************************************)
C12_BoundaryPrefixes ==
  Decoded => PrefixesChecked(res) /\ PrefixesChecked(rawres)

\* both decoders rejected a '+' found where the version number begins
C12_Witness ==
  /\ Decoded
  /\ FirstItemStarts(res, "+")
  /\ FirstItemStarts(rawres, "+")
  /\ res.err = <<"InvalidPrefix", "BeginningOfVersionNumber", "+">>
  /\ rawres.err = res.err

\* both decoders rejected a '+' found where the security data begins
C12_WitnessTail ==
  /\ Decoded
  /\ TailStarts(res, "+")
  /\ TailStarts(rawres, "+")
  /\ res.err = <<"InvalidPrefix", "BeginningOfSecurityData", "+">>
  /\ rawres.err = res.err

\* what C13 says of a decoder with final state P and security payload
\* payload: L is the length the input declares for the payload and r the
\* number of bytes after the length field
SecurityExact(P, payload) ==
  \A k \in 1..Len(P.log) :
    (P.log[k].who = "chunk" /\ P.log[k].field = "LengthOfSecurityData"
       /\ HexAt(P.s, P.log[k].lo) >= 0) =>
      LET L == HexAt(P.s, P.log[k].lo)
          r == Len(P.s) - P.log[k].hi
      IN /\ L > r => P.err = <<"UnexpectedEndOfInput", "SecurityData">>
         /\ L < r => P.err = <<"TrailingData">>
         /\ (L = r /\ L > 0) =>
              /\ P.err = <<>>
              /\ payload = Some(Slice(P.s, P.log[k].hi, P.log[k].hi + L))
         /\ (L = r /\ L = 0) => P.err = <<>> /\ payload = None

\* SecurityExact of the final state of BCBP::from
SecurityExactFrom(P) ==
  P # Idle => SecurityExact(P, IF P.err = <<>> THEN P.out.security_data ELSE None)

\* SecurityExact of the final state of raw::Bcbp::from
SecurityExactRaw(P) ==
  P # Idle => SecurityExact(P, IF P.err = <<>>
                               THEN P.out.security_data.security_data ELSE None)

(***************************************************************************)
(* C13.  Security payload of exactly the declared length, in both          *)
(* decoders: with L the value of the security length field, an input with  *)
(* fewer than L bytes after the field fails with                            *)
(* UnexpectedEndOfInput(SecurityData), one with more than L bytes fails    *)
(* with TrailingData, one with exactly L > 0 bytes is accepted with those  *)
(* bytes as the payload, and L = 0 leaves the payload unset.                *)
(***************************************************************************)
C13_SecurityLength ==
  /\ SecurityExactFrom(res) /\ SecurityExactRaw(rawres)
  /\ SecurityExactFrom(tres) /\ SecurityExactRaw(trawres)

\* an input that declares 5 bytes of security data and holds 2 was rejected
\* by both decoders, and so was the input with one more byte
C13_Witness ==
  /\ pc = "trailed"
  /\ \E k \in 1..Len(res.log) :
       /\ res.log[k].field = "LengthOfSecurityData"
       /\ HexAt(src, res.log[k].lo) = 5
       /\ Len(src) - res.log[k].hi = 2
  /\ res.err = <<"UnexpectedEndOfInput", "SecurityData">>
  /\ rawres.err = res.err
  /\ tres.err = res.err
  /\ trawres.err = res.err

(***************************************************************************)
(* C14.  At least one leg: every boarding pass raw::Bcbp::from returns as  *)
(* Ok has legs().len() >= 1, and an input whose leg-count byte is '0' is   *)
(* never accepted.                                                          *)
(***************************************************************************)
C14_AtLeastOneLeg ==
  (Decoded /\ rawres.err = <<>>) =>
    /\ Len(rawres.out.legs) >= 1
    /\ src[2] # "0"

(***************************************************************************)
(* C15.  Displayed name: for every record BCBP::from returns, name() is    *)
(* the 20-byte passenger-name field of the input, bytes 2..21, with its    *)
(* trailing spaces removed.                                                 *)
(***************************************************************************)
C15_DisplayedName ==
  (Decoded /\ res.err = <<>>) => name(res.out) = trim_end(Slice(src, 2, 22))

(***************************************************************************)
(* C16.  Flight-day range: in every record BCBP::from returns, the flight  *)
(* day of each leg is unset (0) or a day of the year within 1..=366.       *)
(***************************************************************************)
C16_FlightDayRange ==
  (Decoded /\ res.err = <<>>) =>
    \A i \in 1..Len(res.out.legs) : res.out.legs[i].flight_day \in 0..366

(***************************************************************************)
(* Day of the year (datetime/mod.rs).  A Date is [year, ordinal]; a result *)
(* is [err, val] with err = <<>> for Ok(val).                               *)
(***************************************************************************)
MAX_ADAPT_DAYS == 31

\* is_leap_year
is_leap_year(year) == year % 4 = 0 /\ (year % 100 # 0 \/ year % 400 = 0)

\* the number of days of a year, as the time crate counts them
days_in_year(year) == IF is_leap_year(year) THEN 366 ELSE 365

\* Date::from_ordinal_date
from_ordinal_date(year, ordinal) ==
  IF ordinal >= 1 /\ ordinal <= days_in_year(year)
  THEN [err |-> <<>>, val |-> [year |-> year, ordinal |-> ordinal]]
  ELSE [err |-> <<"ComponentRange">>, val |-> None]

\* DayOfYear::new
DayOfYear_new(day) ==
  IF day = 0 \/ day > 366
  THEN [err |-> <<"InvalidDayOfYearRange", day>>, val |-> None]
  ELSE [err |-> <<>>, val |-> day]

\* DayOfYear::to_date
to_date(self, year) ==
  Let(from_ordinal_date(year, self), LAMBDA r :
  IF r.err # <<>> THEN [err |-> <<"OverflowNotLeapYear">>, val |-> None] ELSE r)

\* the year DayOfYear::to_date_adapt settles on
adapt_year(self, for_date, days) ==
  IF self < days /\ for_date.ordinal > 365 - days THEN for_date.year + 1
  ELSE IF self > 365 - days /\ for_date.ordinal < days THEN for_date.year - 1
  ELSE for_date.year

\* DayOfYear::to_date_adapt
to_date_adapt(self, for_date, days) ==
  IF days = 0 \/ days > MAX_ADAPT_DAYS
  THEN [err |-> <<"InvalidAdaptRange", days>>, val |-> None]
  ELSE Let(adapt_year(self, for_date, days), LAMBDA year :
       IF self = 366 /\ ~is_leap_year(year)
       THEN [err |-> <<"OverflowNotLeapYear">>, val |-> None]
       ELSE to_date(self, year))

(***************************************************************************)
(* A caller of the day-of-year functions: it constructs a DayOfYear from a *)
(* number, then converts it to a date, in a given year or in the year      *)
(* inferred from a reference date and a window.  src holds the arguments,  *)
(* res the last result, built the DayOfYear constructed.                    *)
(***************************************************************************)
\* the arguments the caller draws from: day numbers around 1, the windows
\* and 366, windows around 1 and 31, leap and common years, and reference
\* dates near both ends of the year
DateInputs ==
  [day : {0, 1, 2, 3, 6, 7, 30, 31, 334, 335, 359, 360, 363, 364, 365, 366, 367},
   days : {0, 1, 2, 7, 31, 32},
   for_date : {d \in [year : {2000, 2015, 2016, 2017, 2100},
                      ordinal : {1, 2, 6, 7, 30, 31, 334, 335, 336, 358, 359,
                                 360, 363, 364, 365, 366}] :
                 d.ordinal <= days_in_year(d.year)}]

InitDate ==
  /\ src \in DateInputs
  /\ pc = "start"
  /\ res = Idle
  /\ rawres = Idle
  /\ built = None
  /\ res2 = Idle
  /\ extra = None
  /\ tres = Idle
  /\ trawres = Idle

\* DayOfYear::new(src.day)
NewDay ==
  /\ pc = "start"
  /\ res' = DayOfYear_new(src.day)
  /\ built' = IF res'.err = <<>> THEN Some(res'.val) ELSE None
  /\ pc' = "new"
  /\ UNCHANGED <<src, rawres, res2, extra, tres, trawres>>

\* day.to_date(src.for_date.year)
ToDate ==
  /\ pc = "new"
  /\ built # None
  /\ res' = to_date(built[1], src.for_date.year)
  /\ pc' = "dated"
  /\ UNCHANGED <<src, rawres, built, res2, extra, tres, trawres>>

\* day.to_date_adapt(src.for_date, src.days)
ToDateAdapt ==
  /\ pc = "new"
  /\ built # None
  /\ res' = to_date_adapt(built[1], src.for_date, src.days)
  /\ pc' = "adapted"
  /\ UNCHANGED <<src, rawres, built, res2, extra, tres, trawres>>

NextDate ==
  \/ NewDay
  \/ ToDate
  \/ ToDateAdapt

SpecDate == InitDate /\ [][NextDate]_vars

\* the result of placing the day-of-year d in the year y
InYear(d, y) ==
  IF d = 366 /\ ~is_leap_year(y)
  THEN [err |-> <<"OverflowNotLeapYear">>, val |-> None]
  ELSE [err |-> <<>>, val |-> [year |-> y, ordinal |-> d]]

(***************************************************************************)
(* C17.  Year inference in DayOfYear::to_date_adapt, for a window w, a     *)
(* reference date of the year Y and a day-of-year d: with w in 1..=31,     *)
(* d < w on one of the last w days of Y (December 31 - offset,             *)
(* offset < w) gives day d of Y + 1; d > 365 - w on a January day j < w    *)
(* gives day d of Y - 1, where d = 366 gives OverflowNotLeapYear exactly   *)
(* when Y - 1 is not a leap year; in all other cases the year of the       *)
(* reference date is used; w = 0 or w > 31 gives InvalidAdaptRange.        *)
(***************************************************************************)
C17_YearInference ==
  pc = "adapted" =>
    LET d == built[1]
        w == src.days
        Y == src.for_date.year
        o == src.for_date.ordinal
    IN IF w = 0 \/ w > 31 THEN res.err = <<"InvalidAdaptRange", w>>
       ELSE IF d < w /\ \E offset \in 0..(w - 1) : o = days_in_year(Y) - offset
       THEN res = InYear(d, Y + 1) /\ res.err = <<>>
       ELSE IF d > 365 - w /\ o < w
       THEN res = InYear(d, Y - 1)
       ELSE res = InYear(d, Y)

(***************************************************************************)
(* A caller of the cursor: it makes a Chunk over a text and calls the      *)
(* operations of chunk.rs on it in any order, going on after an error and  *)
(* stopping at a panic; after fetch_chunk it may go on with the child.     *)
(* src is the text; res holds the cursor (cur), the call made last (op:    *)
(* its name, field, radix and length, "" and -1 where it has none), the    *)
(* cursor before that call (before) and what the call returned (r).        *)
(***************************************************************************)
ChunkTexts ==
  { <<>>,
    <<"7">>,
    <<"Z", "Z">>,
    <<"1", "F", "^">>,
    <<"0", "2", ">", "5", "x">>,
    <<"M", "1", "+", "0", "A", "B", "C">> }

\* the fields the caller reads: of length 1, 2, 3 and variable
ChunkFields ==
  {"FormatCode", "FieldSizeOfVariableSizeField", "FromCityAirportCode",
   "SecurityData"}

ChunkLens == 0..3

InitChunk ==
  /\ src \in ChunkTexts
  /\ pc = "start"
  /\ res = Idle
  /\ rawres = Idle
  /\ built = None
  /\ res2 = Idle
  /\ extra = None
  /\ tres = Idle
  /\ trawres = Idle

\* Chunk::new(src)
NewChunk ==
  /\ pc = "start"
  /\ res' = [cur |-> new(src), before |-> new(src),
             op |-> [name |-> "new", field |-> "", radix |-> -1, n |-> -1],
             r |-> [err |-> <<>>, val |-> None, chunk |-> new(src)]]
  /\ pc' = "cursor"
  /\ UNCHANGED <<src, rawres, built, res2, extra, tres, trawres>>

\* the caller's record after the call op on the cursor returned r, which
\* leaves the cursor r.chunk
After(op, r) == [cur |-> r.chunk, before |-> res.cur, op |-> op, r |-> r]

\* a failed assert! ends the caller
Resume(r) == IF r.err # <<>> /\ r.err[1] = "Panic" THEN "panicked" ELSE "cursor"

\* cursor.fetch_chunk(n)
CallFetchChunk(n) ==
  /\ pc = "cursor"
  /\ res' = After([name |-> "fetch_chunk", field |-> "", radix |-> -1,
                   n |-> n], fetch_chunk(res.cur, n))
  /\ pc' = Resume(res'.r)
  /\ UNCHANGED <<src, rawres, built, res2, extra, tres, trawres>>

\* cursor.fetch_str_len(field, n)
CallFetchStrLen(field, n) ==
  /\ pc = "cursor"
  /\ res' = After([name |-> "fetch_str_len", field |-> field, radix |-> -1,
                   n |-> n], fetch_str_len(src, res.cur, field, n))
  /\ pc' = Resume(res'.r)
  /\ UNCHANGED <<src, rawres, built, res2, extra, tres, trawres>>

\* cursor.fetch_str(field)
CallFetchStr(field) ==
  /\ pc = "cursor"
  /\ res' = After([name |-> "fetch_str", field |-> field, radix |-> -1,
                   n |-> -1], fetch_str(src, res.cur, field))
  /\ pc' = Resume(res'.r)
  /\ UNCHANGED <<src, rawres, built, res2, extra, tres, trawres>>

\* cursor.fetch_str_opt(field)
CallFetchStrOpt(field) ==
  /\ pc = "cursor"
  /\ res' = After([name |-> "fetch_str_opt", field |-> field, radix |-> -1,
                   n |-> -1], fetch_str_opt(src, res.cur, field))
  /\ pc' = Resume(res'.r)
  /\ UNCHANGED <<src, rawres, built, res2, extra, tres, trawres>>

\* cursor.fetch_char(field)
CallFetchChar(field) ==
  /\ pc = "cursor"
  /\ res' = After([name |-> "fetch_char", field |-> field, radix |-> -1,
                   n |-> -1], fetch_char(src, res.cur, field))
  /\ pc' = Resume(res'.r)
  /\ UNCHANGED <<src, rawres, built, res2, extra, tres, trawres>>

\* cursor.fetch_char_opt(field)
CallFetchCharOpt(field) ==
  /\ pc = "cursor"
  /\ res' = After([name |-> "fetch_char_opt", field |-> field, radix |-> -1,
                   n |-> -1], fetch_char_opt(src, res.cur, field))
  /\ pc' = Resume(res'.r)
  /\ UNCHANGED <<src, rawres, built, res2, extra, tres, trawres>>

\* cursor.fetch_usize(field, radix)
CallFetchUsize(field, radix) ==
  /\ pc = "cursor"
  /\ res' = After([name |-> "fetch_usize", field |-> field, radix |-> radix,
                   n |-> -1], fetch_usize(src, res.cur, field, radix))
  /\ pc' = Resume(res'.r)
  /\ UNCHANGED <<src, rawres, built, res2, extra, tres, trawres>>

\* the caller goes on with the child cursor fetch_chunk returned
Enter ==
  /\ pc = "cursor"
  /\ res.op.name = "fetch_chunk"
  /\ res.r.err = <<>>
  /\ res' = [res EXCEPT !.cur = res.r.val, !.op.name = "enter"]
  /\ UNCHANGED <<src, pc, rawres, built, res2, extra, tres, trawres>>

NextChunk ==
  \/ NewChunk
  \/ \E n \in ChunkLens : CallFetchChunk(n)
  \/ \E field \in ChunkFields, n \in ChunkLens : CallFetchStrLen(field, n)
  \/ \E field \in ChunkFields : CallFetchStr(field)
  \/ \E field \in ChunkFields : CallFetchStrOpt(field)
  \/ \E field \in ChunkFields : CallFetchChar(field)
  \/ \E field \in ChunkFields : CallFetchCharOpt(field)
  \/ \E field \in ChunkFields, radix \in {10, 16} : CallFetchUsize(field, radix)
  \/ Enter

SpecChunk == InitChunk /\ [][NextChunk]_vars

\* the call made last is call, and it did not panic
LastCall(call) ==
  /\ pc \in {"cursor", "panicked"}
  /\ res.op.name = call
  /\ ~(res.r.err # <<>> /\ res.r.err[1] = "Panic")

\* the bytes the cursor c holds
Held(c) == Slice(src, c.lo, c.hi)

(***************************************************************************)
(* C18.  Optional reads: fetch_str_opt and fetch_char_opt return Ok(None)  *)
(* and consume nothing exactly when the cursor is empty at the call;       *)
(* otherwise they behave as the fixed read of the field: a cursor that     *)
(* holds part of the field gives UnexpectedEndOfInput(field), and one that *)
(* holds it all gives Some of the field and advances by its length.        *)
(***************************************************************************)
C18_OptionalReads ==
  (LastCall("fetch_str_opt") \/ LastCall("fetch_char_opt")) =>
    LET b == res.before
        f == res.op.field
        r == res.r
    IN /\ (r.err = <<>> /\ r.val = None) <=> eof(b)
       /\ eof(b) => r.chunk = b
       /\ (~eof(b) /\ len(b) < FieldLen(f)) =>
            r.err = <<"UnexpectedEndOfInput", f>> /\ r.chunk = b
       /\ len(b) >= FieldLen(f) =>
            /\ r.err = <<>>
            /\ r.chunk = [lo |-> b.lo + FieldLen(f), hi |-> b.hi]
            /\ r.val = IF res.op.name = "fetch_str_opt"
                       THEN Some(Slice(src, b.lo, b.lo + FieldLen(f)))
                       ELSE Some(src[b.lo + 1])
       /\ ~eof(b) =>
            LET fixed == IF res.op.name = "fetch_str_opt"
                         THEN fetch_str(src, b, f) ELSE fetch_char(src, b, f)
            IN /\ r.err = fixed.err
               /\ r.chunk = fixed.chunk
               /\ r.err = <<>> => r.val = Some(fixed.val)

\* fetch_str_opt was called for a 2-byte field on a cursor holding one
\* byte, and returned UnexpectedEndOfInput
C18_Witness ==
  /\ LastCall("fetch_str_opt")
  /\ FieldLen(res.op.field) = 2
  /\ len(res.before) = 1
  /\ res.r.err = <<"UnexpectedEndOfInput", res.op.field>>
  /\ res.cur = res.before

(***************************************************************************)
(* C19.  fetch_chunk(len) with len > 0: when at least len bytes remain,    *)
(* the child holds exactly the first len bytes, the parent advances by     *)
(* exactly len, and the parent before the call is the child followed by    *)
(* the parent after it; when fewer remain, the call fails with             *)
(* SubsectionTooLong and leaves the parent unchanged.  Whatever the        *)
(* operation called, the remaining length of a cursor never increases,     *)
(* and a child the caller goes on with never holds more than its parent    *)
(* held before the call.                                                    *)
(***************************************************************************)
C19_FetchChunk ==
  /\ [](LastCall("fetch_chunk") =>
          LET b == res.before
              n == res.op.n
              r == res.r
          IN /\ len(b) >= n =>
                  /\ r.err = <<>>
                  /\ Held(r.val) = Slice(src, b.lo, b.lo + n)
                  /\ len(r.val) = n
                  /\ len(r.chunk) = len(b) - n
                  /\ Held(b) = Held(r.val) \o Held(r.chunk)
                  /\ res.cur = r.chunk
             /\ len(b) < n =>
                  /\ r.err = <<"SubsectionTooLong">>
                  /\ r.chunk = b
                  /\ res.cur = b)
  /\ [][pc = "cursor" =>
          LET old == IF res'.op.name = "enter" THEN res.before ELSE res.cur
          IN /\ len(res'.cur) <= len(old)
             /\ res'.cur.lo >= old.lo
             /\ res'.cur.hi <= old.hi]_vars

\* fetch_chunk(2) on a cursor holding 3 bytes returned a child with the
\* first 2 and left 1 in the parent
C19_Witness ==
  /\ LastCall("fetch_chunk")
  /\ res.op.n = 2
  /\ len(res.before) = 3
  /\ res.r.err = <<>>
  /\ len(res.r.val) = 2
  /\ len(res.cur) = 1

\* fetch_chunk(3) on a cursor holding 2 bytes failed and left it unchanged
C19_WitnessShort ==
  /\ LastCall("fetch_chunk")
  /\ res.op.n = 3
  /\ len(res.before) = 2
  /\ res.r.err = <<"SubsectionTooLong">>
  /\ res.cur = res.before

(***************************************************************************)
(* C20.  fetch_usize does not advance the input unless the value is        *)
(* scanned: when it returns ExpectedInteger or UnexpectedEndOfInput, the   *)
(* remaining input of the cursor is what it was before the call.           *)
(***************************************************************************)
C20_FetchUsizeNoAdvance ==
  (LastCall("fetch_usize") /\ res.r.err # <<>>) =>
    /\ res.r.err[1] \in {"ExpectedInteger", "UnexpectedEndOfInput"}
    /\ res.cur = res.before

\* s with the bytes from offset off on overwritten by g
Overwrite(s, off, g) ==
  [i \in 1..Len(s) |-> IF i > off /\ i <= off + Len(g) THEN g[i - off] ELSE s[i]]

\* the two bytes b are a number in radix 16: two hex digits, or a '+' and
\* one hex digit
HexNumber(b) ==
  \/ to_digit(b[1], 16) >= 0 /\ to_digit(b[2], 16) >= 0
  \/ b[1] = "+" /\ to_digit(b[2], 16) >= 0

\* a decoder with final state P fails with ExpectedInteger naming a size
\* field exactly when it read that field and found no number in radix 16
SizesStrict(P) ==
  LET SizeFields ==
        {"FieldSizeOfVariableSizeField", "FieldSizeOfStructuredMessageUnique",
         "FieldSizeOfStructuredMessageRepeated", "LengthOfSecurityData"}
  IN /\ \A k \in 1..Len(P.log) :
          (P.log[k].field \in SizeFields /\ P.log[k].hi = P.log[k].lo + 2
             /\ ~HexNumber(Slice(P.s, P.log[k].lo, P.log[k].hi))) =>
            P.err = <<"ExpectedInteger", P.log[k].field>>
     /\ (P.err # <<>> /\ P.err[1] = "ExpectedInteger" /\ P.err[2] \in SizeFields) =>
          /\ P.log # <<>>
          /\ P.log[Len(P.log)].field = P.err[2]
          /\ ~HexNumber(Slice(P.s, P.log[Len(P.log)].lo, P.log[Len(P.log)].hi))

(***************************************************************************)
(* C21.  Leniency asymmetry.  No content of a leg's flight day (3 bytes)   *)
(* or check-in sequence (5 bytes) makes BCBP::from fail: overwriting such  *)
(* a field of the input with anything that is no number leaves the         *)
(* outcome, Ok or the error, as it was.  Content that is no number in      *)
(* radix 16 in a size field (conditional item, unique chunk, repeated      *)
(* chunk, security data) makes both decoders fail with ExpectedInteger     *)
(* naming that field.                                                       *)
(***************************************************************************)
C21_Leniency ==
  pc = "rawdecoded" =>
    /\ \A k \in 1..Len(res.log) :
         res.log[k].field \in {"DateOfFlight", "CheckInSequenceNumber"} =>
           LET w == res.log[k].hi - res.log[k].lo
           IN \A g \in {Rep("x", w), <<"-">> \o Rep("9", w - 1),
                        <<"1">> \o Rep(" ", w - 2) \o <<"1">>} :
                from(Overwrite(src, res.log[k].lo, g)).err = res.err
    /\ SizesStrict(res)
    /\ SizesStrict(rawres)

\* both decoders rejected an input of two legs for the size "x1" of the
\* second leg's repeated chunk, and BCBP::from does the same, with no
\* flight day stored for the first leg, when that leg's day is "xxx"
C21_Witness ==
  /\ pc = "rawdecoded"
  /\ res.err = <<"ExpectedInteger", "FieldSizeOfStructuredMessageRepeated">>
  /\ rawres.err = res.err
  /\ Len(res.out.legs) = 1
  /\ res.out.legs[1].flight_day > 0
  /\ from(Overwrite(src, 44, Rep("x", 3))).err = res.err
  /\ from(Overwrite(src, 44, Rep("x", 3))).out.legs[1].flight_day = 0

(***************************************************************************)
(* C22.  Check-in sequence value: in every record BCBP::from returns, a    *)
(* leg whose 5-byte sequence field is all spaces has no sequence, and a    *)
(* leg whose field holds decimal digits between optional spaces has        *)
(* Some(v), v the value of the digits, whatever value the 5 bytes hold.    *)
(***************************************************************************)
C22_SequenceValue ==
  (Decoded /\ res.err = <<>>) =>
    LET reads == SelectSeq(res.log, LAMBDA e : e.field = "CheckInSequenceNumber")
    IN \A i \in 1..Len(res.out.legs) :
         LET f == trim(Slice(src, reads[i].lo, reads[i].hi))
         IN /\ f = <<>> => res.out.legs[i].sequence = None
            /\ (f # <<>> /\ \A j \in 1..Len(f) : f[j] \in DecimalDigits) =>
                 res.out.legs[i].sequence = Some(DigitsValue(f, 10, 0))

\* in the log of a decoder with final state P, the conditional item of a
\* leg after the first (it starts after offset 60) is read from its first
\* byte on as the size of the repeated chunk, and no version prefix is read
\* anywhere but at offset 60
LaterItemsRepeated(P) ==
  /\ \A k \in 1..Len(P.log) :
       (P.log[k].carve /\ P.log[k].field = "conditional_item" /\ P.log[k].lo > 60) =>
         /\ k < Len(P.log)
         /\ P.log[k + 1].who = "conditional_item"
         /\ P.log[k + 1].field = "FieldSizeOfStructuredMessageRepeated"
         /\ P.log[k + 1].lo = P.log[k].lo
  /\ \A k \in 1..Len(P.log) :
       P.log[k].field = "BeginningOfVersionNumber" => P.log[k].lo = 60

\* the input s of a decoder with final state P cut after its first leg,
\* with leg count 1
FirstLegOnly(P) ==
  LET pnr == SelectSeq(P.log, LAMBDA e : e.field = "OperatingCarrierPnrCode")
  IN <<P.s[1], "1">> \o Slice(P.s, 2, pnr[2].lo)

(***************************************************************************)
(* C23.  First-leg asymmetry, in both decoders: the record-level fields    *)
(* (version, passenger type, check-in source, boarding-pass source, issue  *)
(* date, document type, issuer airline, baggage tags) of an accepted input *)
(* are those of the input cut after its first leg; the conditional item of *)
(* every later leg is read starting with the size of the repeated chunk,   *)
(* and no version prefix is read there.                                     *)
(***************************************************************************)
C23_FirstLegOnly ==
  Decoded =>
    /\ LaterItemsRepeated(res)
    /\ LaterItemsRepeated(rawres)
    /\ (res.err = <<>> /\ Len(res.out.legs) >= 2) =>
         LET one == from(FirstLegOnly(res))
         IN /\ one.err = <<>>
            /\ [one.out EXCEPT !.legs = <<>>] =
                 [res.out EXCEPT !.legs = <<>>, !.security_data_type = None,
                                 !.security_data = None]
    /\ (rawres.err = <<>> /\ Len(rawres.out.legs) >= 2) =>
         LET one == from_str(FirstLegOnly(rawres))
         IN /\ one.err = <<>>
            /\ [one.out EXCEPT !.legs = <<>>] =
                 [rawres.out EXCEPT !.legs = <<>>,
                                    !.security_data = RawBcbp_default.security_data]

\* both decoders accepted an input of two legs where the first leg's item
\* holds a unique chunk and the second leg's item a repeated chunk
C23_Witness ==
  /\ Decoded
  /\ res.err = <<>> /\ rawres.err = <<>>
  /\ Len(res.out.legs) = 2
  /\ res.out.version = Some("5")
  /\ res.out.boardingpass_airline # None
  /\ ReadsField(res, "unique_chunk")
  /\ \E k \in 1..Len(res.log) :
       /\ res.log[k].carve /\ res.log[k].field = "conditional_item"
       /\ res.log[k].lo > 60
  /\ res.out.legs[2].airline_num # None

RECURSIVE Width(_)
\* the total width of the fields of a list of reads
Width(reads) ==
  IF reads = <<>> THEN 0 ELSE FieldLen(Head(reads)[2]) + Width(Tail(reads))

\* in the log of a decoder with final state P that knows wu bytes of fields
\* in a unique chunk and wr in a repeated chunk: a chunk declared longer
\* than the fields known is read up to the end of those fields, no error
\* comes from it, and the next read of the conditional item it was carved
\* from starts where the declared length ends
SkipsUnknown(P, wu, wr) ==
  \A k \in 1..Len(P.log) :
    LET e == P.log[k]
        w == IF e.field = "unique_chunk" THEN wu ELSE wr
        inside == {j \in (k + 1)..Len(P.log) :
                     /\ P.log[j].who = e.field
                     /\ \A i \in (k + 1)..j : ~P.log[i].carve \/ P.log[i].who = e.field}
        after == {j \in (k + 1)..Len(P.log) :
                    /\ P.log[j].who = "conditional_item"
                    /\ \A i \in (k + 1)..(j - 1) :
                         P.log[i].who \notin {"chunk", "conditional_item"}}
    IN (e.carve /\ e.field \in {"unique_chunk", "repeated_chunk"}
          /\ e.hi - e.lo > w) =>
         /\ inside # {}
         /\ \A j \in inside : P.log[j].hi <= e.lo + w
         /\ \E j \in inside : P.log[j].hi = e.lo + w
         /\ (P.err # <<>> /\ P.at = e.field) => \E j \in (k + 1)..Len(P.log) :
              P.log[j].carve /\ P.log[j].field = e.field
         /\ \A j \in after : P.log[j].lo = e.hi

(***************************************************************************)
(* C24.  Forward compatibility, in both decoders: when the declared length *)
(* of a unique or repeated chunk exceeds the total width of the fields the *)
(* decoder knows, the extra bytes are skipped without error, and what      *)
(* follows the chunk is read from the byte after the declared length.      *)
(***************************************************************************)
C24_ForwardCompatible ==
  Decoded =>
    /\ SkipsUnknown(res, Width(UniqueReads), Width(RepeatedReads))
    /\ SkipsUnknown(rawres, Width(RawUniqueReads), Width(RepeatedReads))

\* both decoders accepted an input whose unique chunk declares 52 bytes and
\* whose repeated chunk declares 44, both more than the fields known, and
\* read the airline data "K09" after them
C24_Witness ==
  /\ Decoded
  /\ res.err = <<>> /\ rawres.err = <<>>
  /\ \E k \in 1..Len(res.log) :
       /\ res.log[k].carve /\ res.log[k].field = "unique_chunk"
       /\ res.log[k].hi - res.log[k].lo = 52
  /\ \E k \in 1..Len(rawres.log) :
       /\ rawres.log[k].carve /\ rawres.log[k].field = "repeated_chunk"
       /\ rawres.log[k].hi - rawres.log[k].lo = 44
  /\ res.out.legs[1].var = Some(<<"K", "0", "9">>)
  /\ res.out.legs[1].fast_track = Some("Y")
  /\ res.out.boardingpass_airline = Some(<<"L", "H">>)


\* in an accepted decoding with final state P of the input s, whose legs
\* carry the airline data tails: the tail of each leg is the bytes of its
\* conditional item after the last size, prefix, version or chunk read from
\* it, None when there are none or the leg has no conditional item; and the
\* size of the first leg's item is the sum of its parts
TailVerbatim(P, s, tails) ==
  LET pnr == {k \in 1..Len(P.log) : P.log[k].field = "OperatingCarrierPnrCode"}
  IN \A p \in pnr :
       LET i == Cardinality({q \in pnr : q <= p})
           mine == {k \in p..Len(P.log) : \A q \in pnr : q > p => k < q}
           item == {k \in mine : P.log[k].carve
                                   /\ P.log[k].field = "conditional_item"}
           part(f) == {k \in mine : P.log[k].carve /\ P.log[k].field = f}
       IN /\ item = {} => tails[i] = None
          /\ \A c \in item :
               LET ends == {P.log[k].hi : k \in {j \in mine :
                              /\ P.log[j].who = "conditional_item"
                              /\ P.log[j].field # "AirlineIndividualUse"}}
                   pos == IF ends = {} THEN P.log[c].lo
                          ELSE CHOOSE h \in ends : \A g \in ends : g <= h
               IN /\ tails[i] = IF pos = P.log[c].hi THEN None
                                ELSE Some(Slice(s, pos, P.log[c].hi))
                  /\ \A u \in part("unique_chunk") :
                     \A r \in part("repeated_chunk") :
                       (i = 1 /\ tails[i] # None) =>
                         P.log[c].hi - P.log[c].lo =
                           2 + (2 + (P.log[u].hi - P.log[u].lo))
                             + (2 + (P.log[r].hi - P.log[r].lo))
                             + Len(tails[i][1])

(***************************************************************************)
(* C25.  In both decoders the bytes of a leg's conditional item that        *)
(* remain after the prefix, version and unique chunk (first leg) and the   *)
(* repeated chunk are the leg's airline data, byte for byte and untrimmed, *)
(* absent exactly when no byte remains; the first leg's declared size is   *)
(* 2 + (2 + unique) + (2 + repeated) + tail when all parts are present.    *)
(***************************************************************************)
C25_AirlineUseTail ==
  Decoded =>
    /\ res.err = <<>> =>
         TailVerbatim(res, src, [i \in 1..Len(res.out.legs) |->
                                   res.out.legs[i].var])
    /\ rawres.err = <<>> =>
         TailVerbatim(rawres, src, [i \in 1..Len(rawres.out.legs) |->
                                      rawres.out.legs[i].airline_individual_use])

\* both decoders kept a tail with its spaces on the first leg
C25_Witness ==
  /\ Decoded
  /\ res.err = <<>> /\ rawres.err = <<>>
  /\ res.out.legs[1].var = Some(<<" ", "a", " ">>)
  /\ rawres.out.legs[1].airline_individual_use = Some(<<" ", "a", " ">>)

\* both decoders kept a tail with its spaces on the second leg
C25_WitnessLater ==
  /\ Decoded
  /\ res.err = <<>> /\ rawres.err = <<>>
  /\ Len(res.out.legs) = 2
  /\ res.out.legs[2].var = Some(<<" ", "Z", " ">>)
  /\ rawres.out.legs[2].airline_individual_use = Some(<<" ", "Z", " ">>)

\* the first leg's conditional item has a unique chunk, a repeated chunk
\* and a tail
C25_WitnessParts ==
  /\ Decoded
  /\ res.err = <<>>
  /\ ReadsField(res, "unique_chunk") /\ ReadsField(res, "repeated_chunk")
  /\ res.out.legs[1].var = Some(<<"K", "0", "9">>)


(***************************************************************************)
(* The encoder on records changed after decoding: a caller decodes an      *)
(* input, changes the record through Leg::pnr_set, flight_number_set and   *)
(* seat_set and through the vector legs_mut() returns, and calls build().  *)
(* src is the input, res the decoder's final state whose record the caller *)
(* changes, built the last string build() returned for the record as it    *)
(* is.                                                                      *)
(***************************************************************************)
\* the most legs the caller lets the record have
MaxPushed == 10

\* the legs whose setters the caller uses
MaxSetLeg == 1

\* the inputs the caller decodes
BuildInputs ==
  { Assemble("M", LegDigit(n), NameTexts[1], "E", Body(n, 1, 1, 2, 1), <<>>) :
      n \in 1..2 }

\* the texts the caller passes to pnr_set, flight_number_set and seat_set
PnrTexts == {<<"X", "Y", "Z">>, <<"A", "B", "C", "D", "E", "F", "G", "H">>}

FlightTexts == {<<"1", "2">>, <<"1", "2", "3", "4", "5", "6">>}

SeatTexts == {<<"1", "A">>, <<"0", "1", "2", "A", "B">>}

InitBuild ==
  /\ src \in BuildInputs
  /\ pc = "start"
  /\ res = Idle
  /\ rawres = Idle
  /\ built = None
  /\ res2 = Idle
  /\ extra = None
  /\ tres = Idle
  /\ trawres = Idle

\* BCBP::from(src).unwrap()
DecodeRecord ==
  /\ pc = "start"
  /\ from(src).err = <<>>
  /\ res' = from(src)
  /\ pc' = "record"
  /\ UNCHANGED <<src, rawres, built, res2, extra, tres, trawres>>

\* bcbp.legs_mut()[i - 1].pnr_set(pnr)
PnrSet(i, pnr) ==
  /\ pc = "record"
  /\ i <= Len(res.out.legs)
  /\ res' = [res EXCEPT !.out.legs[i].pnr = pnr]
  /\ built' = None
  /\ UNCHANGED <<src, pc, rawres, res2, extra, tres, trawres>>

\* bcbp.legs_mut()[i - 1].flight_number_set(code)
FlightNumberSet(i, code) ==
  /\ pc = "record"
  /\ i <= Len(res.out.legs)
  /\ res' = [res EXCEPT !.out.legs[i].flight_number = code]
  /\ built' = None
  /\ UNCHANGED <<src, pc, rawres, res2, extra, tres, trawres>>

\* bcbp.legs_mut()[i - 1].seat_set(seat)
SeatSet(i, seat) ==
  /\ pc = "record"
  /\ i <= Len(res.out.legs)
  /\ res' = [res EXCEPT !.out.legs[i].seat = Some(seat)]
  /\ built' = None
  /\ UNCHANGED <<src, pc, rawres, res2, extra, tres, trawres>>

\* bcbp.legs_mut().push(Leg::default())
PushLeg ==
  /\ pc = "record"
  /\ Len(res.out.legs) < MaxPushed
  /\ res' = [res EXCEPT !.out.legs = Append(@, Leg_default)]
  /\ built' = None
  /\ UNCHANGED <<src, pc, rawres, res2, extra, tres, trawres>>

\* bcbp.legs_mut().pop()
PopLeg ==
  /\ pc = "record"
  /\ res.out.legs # <<>>
  /\ res' = [res EXCEPT !.out.legs = SubSeq(@, 1, Len(@) - 1)]
  /\ built' = None
  /\ UNCHANGED <<src, pc, rawres, res2, extra, tres, trawres>>

\* bcbp.build()
BuildRecord ==
  /\ pc = "record"
  /\ built = None
  /\ built' = Some(build(res.out))
  /\ UNCHANGED <<src, pc, res, rawres, res2, extra, tres, trawres>>

NextBuild ==
  \/ DecodeRecord
  \/ \E i \in 1..MaxSetLeg, pnr \in PnrTexts : PnrSet(i, pnr)
  \/ \E i \in 1..MaxSetLeg, code \in FlightTexts : FlightNumberSet(i, code)
  \/ \E i \in 1..MaxSetLeg, seat \in SeatTexts : SeatSet(i, seat)
  \/ PushLeg
  \/ PopLeg
  \/ BuildRecord

SpecBuild == InitBuild /\ [][NextBuild]_vars

\* the legs of the record were not changed since it was decoded
Untouched == res.out.legs = from(src).out.legs

(***************************************************************************)
(* C26.  For every record, decoded or changed afterwards through the       *)
(* setters and legs_mut(), build() returns a string of 23 + 37 * k bytes   *)
(* where k is the leg-count digit it writes: the digit is the number of    *)
(* leg blocks emitted, and every leg block has 37 bytes and ends in "00".  *)
(***************************************************************************)
C26_EncoderWidth ==
  (pc = "record" /\ built # None) =>
    LET k == DigitsValue(<<built[1][2]>>, 10, 0)
    IN /\ Len(built[1]) = 23 + 37 * k
       /\ k = Len(res.out.legs)
       /\ \A i \in 1..Len(res.out.legs) :
            /\ Len(build_leg(res.out.legs[i])) = 37
            /\ SubSeq(build_leg(res.out.legs[i]), 36, 37) = <<"0", "0">>


\* the variant the comments of enum PaxType give for a passenger
\* description character
PaxType_documented(t) ==
  CASE t = " " -> <<"None">>
    [] t = "0" -> <<"Adult">>
    [] t = "1" -> <<"Male">>
    [] t = "2" -> <<"Female">>
    [] t = "3" -> <<"Child">>
    [] t = "4" -> <<"Infant">>
    [] t = "5" -> <<"CabinBaggage">>
    [] t = "6" -> <<"AdultWithInfant">>
    [] OTHER -> <<"Other", t>>

(***************************************************************************)
(* C27.  The passenger type of an accepted input is the variant the enum   *)
(* documents for its passenger description character: ' ' None, '0'        *)
(* Adult, '1' Male, '2' Female, '3' Child, '4' Infant, '5' CabinBaggage,   *)
(* '6' AdultWithInfant, any other c Other(c); None without a unique chunk. *)
(***************************************************************************)
C27_PaxTypeMapping ==
  (pc = "rawdecoded" /\ res.err = <<>>) =>
    /\ \A k \in 1..Len(res.log) :
         res.log[k].field = "PassengerDescription" =>
           res.out.pax_type = PaxType_documented(src[res.log[k].lo + 1])
    /\ (\A k \in 1..Len(res.log) : res.log[k].field # "unique_chunk") =>
         res.out.pax_type = <<"None">>


(***************************************************************************)
(* C28.  fetch_usize(field, radix) on a cursor holding the whole field     *)
(* returns Ok(v) only when every byte of the field is a digit of the       *)
(* radix, v being their positional value; a field with any other byte,     *)
(* such as a sign or a space, yields ExpectedInteger(field).               *)
(***************************************************************************)
C28_DigitsOnly ==
  (/\ LastCall("fetch_usize")
   /\ res.before.hi - res.before.lo >= FieldLen(res.op.field)) =>
    LET b == Slice(src, res.before.lo, res.before.lo + FieldLen(res.op.field))
    IN IF \A i \in 1..Len(b) : to_digit(b[i], res.op.radix) >= 0
       THEN res.r.err = <<>> /\ res.r.val = DigitsValue(b, res.op.radix, 0)
       ELSE res.r.err = <<"ExpectedInteger", res.op.field>>


\* the decoder with final state P did not stop on an assertion of the cursor
NoPanic(P) == P.err = <<>> \/ P.err[1] # "Panic"

(***************************************************************************)
(* C29.  Neither decoder violates a precondition of the cursor, whatever   *)
(* the input: no fetch_chunk or fetch_str_len of length 0, no              *)
(* variable-length field through a fixed-length read, no length other than *)
(* a fixed field's own, and no read beyond the input that remains.         *)
(***************************************************************************)
C29_NoPreconditionViolation ==
  /\ NoPanic(res) /\ NoPanic(rawres) /\ NoPanic(res2)
  /\ NoPanic(tres) /\ NoPanic(trawres)
  /\ pc = "rawdecoded" =>
       \A P \in {res, rawres} : \A k \in 1..Len(P.log) :
         /\ P.log[k].lo < P.log[k].hi
         /\ P.log[k].hi <= P.log[k].end
         /\ P.log[k].end <= ByteLen(src)
         /\ (~P.log[k].carve /\ P.log[k].who # P.log[k].field
               /\ FieldLen(P.log[k].field) # 0) =>
              P.log[k].hi - P.log[k].lo = FieldLen(P.log[k].field)

\* both decoders accepted an input whose repeated chunk and security data
\* declare length 0
C29_Witness ==
  /\ pc = "rawdecoded"
  /\ res.err = <<>> /\ rawres.err = <<>>
  /\ \E k \in 1..Len(res.log) :
       /\ res.log[k].field = "FieldSizeOfStructuredMessageRepeated"
       /\ Slice(src, res.log[k].lo, res.log[k].hi) = <<"0", "0">>
  /\ \E k \in 1..Len(rawres.log) :
       /\ rawres.log[k].field = "LengthOfSecurityData"
       /\ Slice(src, rawres.log[k].lo, rawres.log[k].hi) = <<"0", "0">>


(***************************************************************************)
(* C30.  The two decoders agree on acceptance: for every ASCII input of at *)
(* least 60 bytes whose leg-count byte is a digit from 1 to 9,             *)
(* raw::Bcbp::from accepts exactly when BCBP::from does, and then both     *)
(* report the same number of legs and, leg by leg, the same PNR, airports  *)
(* and airline up to trimming.                                              *)
(***************************************************************************)
C30_DecodersAgree ==
  (/\ pc = "rawdecoded"
   /\ is_ascii(src) /\ Len(src) >= 60
   /\ src[2] \in {"1", "2", "3", "4", "5", "6", "7", "8", "9"}) =>
    /\ (rawres.err = <<>>) <=> (res.err = <<>>)
    /\ (rawres.err = <<>> /\ res.err = <<>>) =>
         /\ Len(rawres.out.legs) = Len(res.out.legs)
         /\ \A i \in 1..Len(res.out.legs) :
              /\ trim(rawres.out.legs[i].pnr) = res.out.legs[i].pnr
              /\ trim(rawres.out.legs[i].src_airport) = res.out.legs[i].src_airport
              /\ trim(rawres.out.legs[i].dst_airport) = res.out.legs[i].dst_airport
              /\ trim(rawres.out.legs[i].airline) = res.out.legs[i].airline

=============================================================================
